---- MODULE Spec2Model ----
(***************************************************************************)
(* Handlebars Preview Plus: the companion-module loader (require cache,    *)
(* dependency map, source overrides, partial resolution), the render       *)
(* pipeline and the preview session manager.                               *)
(***************************************************************************)
EXTENDS Integers, Sequences, FiniteSets, TLC

VARIABLES
    disk,                 \* file system: path -> <<>> (no file) or <<source>>
    requireCache,         \* dynamicRequire.cache: path -> <<>> or <<exports>>
    moduleDependencyMap,  \* root path -> <<>> or <<sequence of dependency paths>>
    lastLoad,             \* the latest loadTemplateRecipe call: its arguments,
                          \* what the disk and the cache held when it was made,
                          \* and its outcome
    edits,                \* number of file-system edits made so far
    renderCall,           \* the renderTemplate call in progress: its position,
                          \* arguments, engine, intermediate texts and the
                          \* steps it has run
    buffers,              \* editor documents: path -> <<>> (not dirty) or
                          \* <<unsaved text>>
    sessions,             \* HandlebarsPreviewManager.sessions: template ->
                          \* <<>> or <<session>>
    timers,               \* the debounce timers armed and not yet fired or
                          \* cleared: template -> their handles
    panels,               \* the webview panels created and not disposed:
                          \* template -> their number
    moduleSessionIndex,   \* module path -> <<>> (no bucket) or <<the templates
                          \* of the sessions in the bucket>>
    partialSessionIndex,  \* partial path -> <<>> or <<the templates of the
                          \* sessions in the bucket>>
    lastEvent,            \* the latest text-document-change event and the
                          \* sessions its handler scheduled
    lastRender,           \* what the latest render of a session saw and did
    disposed,             \* the session object disposeSession removed last for
                          \* a template, which its renders in flight, and the
                          \* closures made for it later, still hold: template ->
                          \* <<>> or <<session>>, with the timers armed for it
    calls,                \* the renderTemplate calls in progress side by side:
                          \* call -> its position, recipe, engine handle and
                          \* what the engine held when the template ran
    engines,              \* the Handlebars environments alive: handle -> <<>>
                          \* or <<registrations>>; handle 0 is the default
                          \* instance of the handlebars package
    exported,             \* the export captured from a companion module
    resolution,           \* the outcome of resolveRecipe on that export
    declared,             \* partials, watchFiles and dependencies a module supplies
    assembled,            \* the partial resolution and watch list built from them
    activeTextEditor,     \* vscode.window.activeTextEditor: <<>> or <<the
                          \* document of the editor that has the focus>>
    activePanel,          \* the document whose preview panel is the active
                          \* one (panel.active), or <<>>
    otherSessions,        \* the keys of HandlebarsPreviewManager.sessions that
                          \* belong to documents other than the two templates
    moduleLoadStack,      \* the ModuleLoadFrame objects pushed and not popped
    rootLoad,             \* one root load followed step by step: what is on
                          \* the call stack, the contexts it created, the
                          \* require cache and the dependency map
    tsCompiler            \* configLookupCache and compilerContextCache of
                          \* tsCompiler.ts, and the tsconfig files on disk

loaderVars == <<disk, requireCache, moduleDependencyMap, lastLoad, edits>>
overlapVars == <<calls, engines>>
recipeVars == <<exported, resolution, declared, assembled>>
frameVars == <<moduleLoadStack, rootLoad, tsCompiler>>
renderVars == <<renderCall, overlapVars>>
managerVars == <<buffers, sessions, timers, panels, moduleSessionIndex,
                 partialSessionIndex, lastEvent, lastRender, disposed>>
windowVars == <<activeTextEditor, activePanel, otherSessions>>
vars == <<loaderVars, recipeVars, frameVars, renderVars, managerVars, windowVars>>

(***************************************************************************)
(* Bounds                                                                  *)
(***************************************************************************)
MaxVer == 2
MaxEdits == 2
MaxPending == 2
MaxBurst == 2

(***************************************************************************)
(* Paths.  A path is its directory segments (the last one the file name's  *)
(* stem) and the dot-separated extensions of the file name:                *)
(* /w/a.hbs.ts is [segs |-> <<"/","w","a">>, exts |-> <<"hbs","ts">>].     *)
(***************************************************************************)
MkPath(segs, exts) == [segs |-> segs, exts |-> exts]

RECURSIVE NormalizeSegs(_, _)
NormalizeSegs(segs, acc) ==
    IF segs = <<>> THEN acc
    ELSE LET s == Head(segs)
             rest == Tail(segs)
         IN  IF s = "." THEN NormalizeSegs(rest, acc)
             ELSE IF s = ".."
                  THEN IF acc # <<>> /\ acc[Len(acc)] \notin {"..", "/"}
                       THEN NormalizeSegs(rest, SubSeq(acc, 1, Len(acc) - 1))
                       ELSE IF acc # <<>> /\ acc[Len(acc)] = "/"
                            THEN NormalizeSegs(rest, acc)
                            ELSE NormalizeSegs(rest, Append(acc, ".."))
                  ELSE NormalizeSegs(rest, Append(acc, s))

\* path.normalize
Normalize(p) ==
    LET NonEmpty(n) == IF n = <<>> THEN <<".">> ELSE n
    IN  [p EXCEPT !.segs = NonEmpty(NormalizeSegs(p.segs, <<>>))]

\* path.isAbsolute
IsAbsolute(p) == p.segs # <<>> /\ p.segs[1] = "/"

\* path.dirname, as a segment list
Dirname(p) ==
    IF Len(p.segs) <= 1
    THEN (IF IsAbsolute(p) THEN <<"/">> ELSE <<".">>)
    ELSE SubSeq(p.segs, 1, Len(p.segs) - 1)

\* path.resolve(baseDir, target)
ResolvePath(baseDir, p) ==
    IF IsAbsolute(p) THEN Normalize(p)
    ELSE Normalize([p EXCEPT !.segs = baseDir \o @])

\* path.extname
Extname(p) == IF p.exts = <<>> THEN "" ELSE p.exts[Len(p.exts)]

\* `${templatePath}.js`
WithExt(p, e) == [p EXCEPT !.exts = Append(@, e)]

TemplateA == MkPath(<<"/", "w", "a">>, <<"hbs">>)
TemplateB == MkPath(<<"/", "w", "b">>, <<"hbs">>)
JsA == WithExt(TemplateA, "js")
TsA == WithExt(TemplateA, "ts")
JsB == WithExt(TemplateB, "js")
TsB == WithExt(TemplateB, "ts")
HelperTs == MkPath(<<"/", "w", "helper">>, <<"ts">>)
DeepTs == MkPath(<<"/", "w", "lib", "deep">>, <<"ts">>)
LazyTs == MkPath(<<"/", "w", "lazy">>, <<"ts">>)
PartialHeader == MkPath(<<"/", "w", "partials", "header">>, <<"hbs">>)
\* the same partial file, written the way an unnormalized key names it
PartialHeaderDotted == MkPath(<<"/", "w", ".", "partials", "header">>, <<"hbs">>)
PartialHeaderRel == MkPath(<<".", "partials", "header">>, <<"hbs">>)
DataJsonRel == MkPath(<<"data">>, <<"json">>)

RootModules == {JsA, TsA, JsB, TsB}
ModuleFiles == RootModules \cup {HelperTs}
Files == ModuleFiles \cup {PartialHeader, TemplateA, TemplateB}

(***************************************************************************)
(* Sources.  A source text is a version stamp and the way it misbehaves:   *)
(* "early" does not compile (syntax error, transpile diagnostics), "late"  *)
(* throws at the end of its top-level code, after its requires ran.        *)
(***************************************************************************)
Good(v) == [ver |-> v, fault |-> "none"]
Versions == 1 .. MaxVer
GoodSources == {Good(v) : v \in Versions}
BadSources == {[ver |-> 1, fault |-> "early"], [ver |-> 1, fault |-> "late"]}
Sources == GoodSources \cup BadSources
\* the text of an unsaved editor buffer or of an override, never on disk
BufferText == [ver |-> 0, fault |-> "none"]

\* the text of a partial given inline
InlineText == [ver |-> 0, fault |-> "inline"]
\* "[object Object]": what String(definition) makes of an object
ObjectText == [ver |-> 0, fault |-> "object"]

None == <<>>
Some(x) == <<x>>
Range(s) == {s[i] : i \in 1 .. Len(s)}

\* Set.add on an insertion-ordered set
AddDep(deps, p) == IF p \in Range(deps) THEN deps ELSE Append(deps, p)

(***************************************************************************)
(* What the modules of the workspace contain, besides their version: the   *)
(* files they require at top level and the recipe fields they export.      *)
(* A "relative" request is one Node's own resolver finds once the .ts      *)
(* extensions are registered; an "alias" request (a tsconfig path) is one  *)
(* only the TypeScript resolver of the fallback finds.                     *)
(***************************************************************************)
Imports(path) ==
    IF path = TsA THEN <<[kind |-> "relative", target |-> HelperTs]>>
    ELSE IF path = TsB THEN <<[kind |-> "alias", target |-> HelperTs]>>
    ELSE <<>>

\* the `partials` field a module exports
DeclaredPartials(path) ==
    IF path = JsA
    THEN <<[name |-> "header", kind |-> "file", file |-> Some(PartialHeaderRel),
             text |-> InlineText],
           [name |-> "banner", kind |-> "file",
             file |-> Some(PartialHeaderDotted), text |-> InlineText],
           [name |-> "note", kind |-> "inline", file |-> None,
             text |-> InlineText]>>
    ELSE IF path = JsB
         THEN <<[name |-> "header", kind |-> "file",
                  file |-> Some(PartialHeaderRel), text |-> InlineText]>>
         ELSE <<>>

\* the `watchFiles` field a module exports
DeclaredWatchFiles(path) == IF path = JsA THEN <<DataJsonRel>> ELSE <<>>

\* the names of the `helpers` a module exports
DeclaredHelpers(path) == IF path = JsA THEN {"upper"} ELSE {}

FileExists(file) == disk[file] # None

(***************************************************************************)
(* Override maps (Record<string, string>): a sequence of [key, text]       *)
(* entries in insertion order.                                             *)
(***************************************************************************)
OverrideKeys(overrides) == {overrides[i].key : i \in 1 .. Len(overrides)}

FirstIndex(idx) == CHOOSE i \in idx : \A j \in idx : i <= j

\* the common lookup of getModuleOverride and findOverride: the exact key
\* first, then the first entry whose normalized key matches
LookupOverride(overrides, normalizedPath) ==
    LET Pick(exact, loose) ==
            IF exact # {} THEN Some(overrides[FirstIndex(exact)].text)
            ELSE IF loose # {} THEN Some(overrides[FirstIndex(loose)].text)
            ELSE None
    IN  Pick({i \in 1 .. Len(overrides) : overrides[i].key = normalizedPath},
             {i \in 1 .. Len(overrides) :
                 Normalize(overrides[i].key) = normalizedPath})

GetModuleOverride(overrides, filePath) ==
    LookupOverride(overrides, Normalize(filePath))

\* mutant: only a key identical to the normalized path is found
FindOverrideExactOnly(overrides, normalizedPath) ==
    LET Pick(exact) ==
            IF exact # {} THEN Some(overrides[FirstIndex(exact)].text) ELSE None
    IN  Pick({i \in 1 .. Len(overrides) : overrides[i].key = normalizedPath})

FindOverride(overrides, normalizedPath) ==
    LookupOverride(overrides, normalizedPath)

(***************************************************************************)
(* One synchronous module load.  The record threaded through it holds the  *)
(* require cache, the dependency set of the root frame, the files read     *)
(* from disk, and the exports of the module just executed: the set of      *)
(* <<file, version>> pairs the exports were computed from.                 *)
(***************************************************************************)
LoadState(cache) ==
    [ok |-> TRUE, cache |-> cache, deps |-> <<>>, reads |-> {}, exports |-> {}]

RECURSIVE RunRequires(_, _, _)

\* Module.prototype._compile: the requires in order, then the module's code
ExecuteModule(path, src, overrides, st) ==
    LET Finish(r) ==
            IF ~r.ok THEN r
            ELSE IF src.fault = "late" THEN [r EXCEPT !.ok = FALSE]
            ELSE [r EXCEPT !.exports = @ \cup {<<path, src.ver>>}]
    IN  Finish(RunRequires(Imports(path), overrides, [st EXCEPT !.exports = {}]))

\* resolveWithTsFallback: Node's resolver, then resolveTypeScriptFallback,
\* which records what it resolves
ResolveFilename(imp, st) ==
    IF ~FileExists(imp.target) THEN [st EXCEPT !.ok = FALSE]
    ELSE IF imp.kind = "alias"
         THEN [st EXCEPT !.deps = AddDep(@, Normalize(imp.target))]
         ELSE st

\* the .ts extension handler: transpile the override or the disk text,
\* compile, record the file as a dependency of the root frame
RegisterTsModule(file, overrides, st) ==
    LET Record(r) ==
            IF ~r.ok THEN r
            ELSE [r EXCEPT !.deps = AddDep(@, Normalize(file)),
                           !.cache[file] = Some(r.exports)]
        Compile(src, st1) ==
            IF src.fault = "early" THEN [st1 EXCEPT !.ok = FALSE]
            ELSE Record(ExecuteModule(file, src, overrides, st1))
        Read(override) ==
            Compile(IF override # None THEN override[1] ELSE disk[file][1],
                    IF override # None THEN st
                    ELSE [st EXCEPT !.reads = @ \cup {file}])
    IN  Read(GetModuleOverride(overrides, file))

\* Module._load: a cached module is returned as it is, the handler not run
RequireModule(imp, overrides, st) ==
    LET Load(resolved) ==
            IF ~resolved.ok THEN resolved
            ELSE IF resolved.cache[imp.target] # None
                 THEN [resolved EXCEPT !.exports = resolved.cache[imp.target][1]]
                 ELSE RegisterTsModule(imp.target, overrides, resolved)
    IN  Load(ResolveFilename(imp, st))

RunRequires(imps, overrides, st) ==
    IF imps = <<>> THEN st
    ELSE LET Continue(one) ==
                 IF ~one.ok THEN one
                 ELSE RunRequires(Tail(imps), overrides,
                          [one EXCEPT !.exports = st.exports \cup one.exports])
         IN  Continue(RequireModule(Head(imps), overrides, st))

\* invalidateModuleTree, on the pair (require cache, dependency map)
InvalidateModuleTree(modulePath, cache, depMap) ==
    LET Purge(normalized) ==
            LET cached == depMap[normalized]
                purged == IF cached = None THEN {} ELSE Range(cached[1])
            IN  [cache |-> [f \in DOMAIN cache |->
                               IF f \in purged \cup {normalized} THEN None
                               ELSE cache[f]],
                 depMap |-> [depMap EXCEPT ![normalized] = None]]
    IN  Purge(Normalize(modulePath))

\* withModuleLoadFrame for a root frame: the entry of the root is set on
\* success and deleted on failure
CloseRootFrame(modulePath, depMap, r) ==
    [depMap EXCEPT ![Normalize(modulePath)] = IF r.ok THEN Some(r.deps) ELSE None]

\* loadModuleFromSource: a fresh module record compiled from the given text
LoadModuleFromSource(modulePath, src, overrides, cache, depMap) ==
    LET Close(r) ==
            [ok |-> r.ok, exports |-> r.exports, reads |-> r.reads,
             cache |-> IF r.ok THEN [r.cache EXCEPT ![modulePath] = Some(r.exports)]
                       ELSE r.cache,
             depMap |-> CloseRootFrame(modulePath, depMap, r)]
    IN  Close(IF src.fault = "early" THEN [LoadState(cache) EXCEPT !.ok = FALSE]
              ELSE ExecuteModule(modulePath, src, overrides, LoadState(cache)))

\* dynamicRequire(modulePath) inside a root frame, the cache entry deleted first
RequireFromDisk(modulePath, overrides, cache, depMap) ==
    LET Close(r) ==
            [ok |-> r.ok, exports |-> r.exports,
             reads |-> r.reads \cup {modulePath},
             cache |-> IF r.ok THEN [r.cache EXCEPT ![modulePath] = Some(r.exports)]
                       ELSE r.cache,
             depMap |-> CloseRootFrame(modulePath, depMap, r)]
        Run(src, fresh) ==
            Close(IF src.fault = "early" THEN [LoadState(fresh) EXCEPT !.ok = FALSE]
                  ELSE ExecuteModule(modulePath, src, overrides, LoadState(fresh)))
    IN  Run(disk[modulePath][1], [cache EXCEPT ![modulePath] = None])

\* mutant: a module already in the require cache is not compiled again
LoadModuleExportsThroughCache(modulePath, moduleSourceOverride, moduleSourceOverrides) ==
    IF requireCache[modulePath] # None
    THEN [ok |-> TRUE, exports |-> requireCache[modulePath][1], reads |-> {},
          cache |-> requireCache, depMap |-> moduleDependencyMap]
    ELSE LoadModuleFromSource(modulePath,
             IF moduleSourceOverride # None THEN moduleSourceOverride[1]
             ELSE disk[modulePath][1],
             moduleSourceOverrides, requireCache, moduleDependencyMap)

\* loadModuleExports
LoadModuleExports(modulePath, moduleSourceOverride, moduleSourceOverrides) ==
    LET WithReads(r, reads) == [r EXCEPT !.reads = @ \cup reads]
        Load(inv, src, reads) ==
            IF Extname(modulePath) = "ts" /\ src.fault = "early"
            THEN [ok |-> FALSE, exports |-> {}, reads |-> reads,
                  cache |-> inv.cache, depMap |-> inv.depMap]
            ELSE IF Extname(modulePath) = "ts" \/ moduleSourceOverride # None
                 THEN WithReads(LoadModuleFromSource(modulePath, src,
                                    moduleSourceOverrides, inv.cache, inv.depMap),
                                reads)
                 ELSE RequireFromDisk(modulePath, moduleSourceOverrides,
                                      inv.cache, inv.depMap)
    IN  Load(InvalidateModuleTree(modulePath, requireCache, moduleDependencyMap),
             IF moduleSourceOverride # None THEN moduleSourceOverride[1]
             ELSE disk[modulePath][1],
             IF Extname(modulePath) = "ts" /\ moduleSourceOverride = None
             THEN {modulePath} ELSE {})

(***************************************************************************)
(* Recipe resolution                                                       *)
(***************************************************************************)
\* resolveRelativeToModule
ResolveRelativeToModule(modulePath, target) ==
    IF IsAbsolute(target) THEN target
    ELSE ResolvePath(Dirname(modulePath), target)

\* isPartialFileReference: an object that has a `file` key
IsPartialFileReference(definition) == definition.kind = "file"

\* String(definition) of a partial that is not a file reference
StringOf(definition) ==
    IF definition.kind = "object" THEN ObjectText ELSE definition.text

\* `Failed to read partial "${name}" at ${normalizedPath}: ${message}`
ReadFailure(name, normalizedPath) ==
    [kind |-> "readFailed", partial |-> name, path |-> Some(normalizedPath),
     cause |-> Some("ENOENT")]

\* `Partial "${name}" is missing a file path.`
MissingFilePath(name) ==
    [kind |-> "missingFilePath", partial |-> name, path |-> None,
     cause |-> None]

\* mutant: the path of a file-backed partial is not recorded
FilesUnrecorded(files, name, normalizedPath) == files

\* files[name] = normalizedPath
FilesWith(files, name, normalizedPath) ==
    Append(files, [name |-> name, path |-> normalizedPath])

RECURSIVE ResolvePartials(_, _, _, _)
\* resolvePartials; acc = [ok, contents, files, reads, error]
ResolvePartials(partials, modulePath, overrides, acc) ==
    IF partials = <<>> \/ ~acc.ok THEN acc
    ELSE LET def == Head(partials)
             rest == Tail(partials)
             With(content, reads, normalizedPath) ==
                 ResolvePartials(rest, modulePath, overrides,
                     [acc EXCEPT
                        !.contents = Append(@, [name |-> def.name, text |-> content]),
                        !.files = FilesWith(@, def.name, normalizedPath),
                        !.reads = @ \cup reads])
             Read(normalizedPath, override) ==
                 IF override # None
                 THEN With(override[1], {}, normalizedPath)
                 ELSE IF normalizedPath \notin DOMAIN disk
                         \/ disk[normalizedPath] = None
                      THEN [acc EXCEPT !.ok = FALSE,
                                       !.error = Some(ReadFailure(def.name,
                                                         normalizedPath))]
                      ELSE With(disk[normalizedPath][1], {normalizedPath},
                                normalizedPath)
             Locate(normalizedPath) ==
                 Read(normalizedPath, FindOverride(overrides, normalizedPath))
         IN  IF def.kind = "null"
             THEN ResolvePartials(rest, modulePath, overrides, acc)
             ELSE IF IsPartialFileReference(def)
             THEN IF def.file = None
                  THEN [acc EXCEPT !.ok = FALSE,
                                   !.error = Some(MissingFilePath(def.name))]
                  ELSE Locate(Normalize(ResolveRelativeToModule(modulePath,
                                                                def.file[1])))
             ELSE ResolvePartials(rest, modulePath, overrides,
                    [acc EXCEPT !.contents = Append(@, [name |-> def.name,
                                                       text |-> StringOf(def)])])

\* getModuleDependenciesFor
GetModuleDependenciesFor(modulePath, depMap) ==
    LET dependencies == depMap[Normalize(modulePath)]
    IN  IF dependencies = None THEN <<>> ELSE dependencies[1]

RECURSIVE Dedupe(_, _)
\* Array.from(new Set(entries)): the first occurrence of each entry is kept
Dedupe(entries, acc) ==
    IF entries = <<>> THEN acc
    ELSE Dedupe(Tail(entries), AddDep(acc, Head(entries)))

\* the empty string, which `entry.trim().length > 0` filters out
BlankPath == MkPath(<<>>, <<>>)

\* the final watch list: entries deduplicated as given, blank ones dropped,
\* then each relative one resolved against the module's directory
NormalizedWatchFiles(modulePath, watchEntries) ==
    LET Resolved(unique) ==
            [i \in 1 .. Len(unique) |->
                IF IsAbsolute(unique[i]) THEN unique[i]
                ELSE ResolvePath(Dirname(modulePath), unique[i])]
    IN  Resolved(SelectSeq(Dedupe(watchEntries, <<>>),
                           LAMBDA entry : entry # BlankPath))

\* [...resolvedWatchFiles, ...Object.values(partialResolution.files),
\*  ...moduleDependencies]
WatchEntries(resolvedWatchFiles, files, moduleDependencies) ==
    resolvedWatchFiles \o [i \in 1 .. Len(files) |-> files[i].path]
                       \o moduleDependencies

NoRecipe ==
    [title |-> None, data |-> {}, helpers |-> {}, partials |-> <<>>,
     preprocess |-> None, postprocess |-> None, partialFiles |-> <<>>,
     watchFiles |-> <<>>, moduleDependencies |-> <<>>]

\* the version stamp of the module itself in what it exports
TitleOf(modulePath, exports) ==
    LET own == {pair \in exports : pair[1] = modulePath}
    IN  IF own = {} THEN None ELSE Some((CHOOSE pair \in own : TRUE)[2])

\* mutant: existence is decided by the disk alone
ModuleIsPresentOnDiskOnly(modulePath, moduleSource) == FileExists(modulePath)

\* `exists`: an override stands for the file
ModuleIsPresent(modulePath, moduleSource) ==
    moduleSource # None \/ FileExists(modulePath)

\* mutant: a missing module yields the empty recipe instead of an error
MissingModuleEmptyRecipe ==
    [status |-> "ok", recipe |-> NoRecipe, reads |-> {},
     cache |-> requireCache, depMap |-> moduleDependencyMap]

\* throw new Error(`Companion module not found: ...`), nothing loaded
MissingModuleResult ==
    [status |-> "notFound", recipe |-> NoRecipe, reads |-> {},
     cache |-> requireCache, depMap |-> moduleDependencyMap]

\* loadTemplateRecipe: [status, recipe, reads, cache, depMap]
LoadTemplateRecipe(modulePath, moduleSource, moduleSourceOverrides, partialSourceOverrides) ==
    LET Failed(status, raw, reads) ==
            [status |-> status, recipe |-> NoRecipe, reads |-> reads,
             cache |-> raw.cache, depMap |-> raw.depMap]
        Assemble(raw, partialResolution, moduleDependencies) ==
            IF ~partialResolution.ok
            THEN Failed("partialError", raw, raw.reads \cup partialResolution.reads)
            ELSE [status |-> "ok",
                  recipe |->
                    [title |-> TitleOf(modulePath, raw.exports),
                     data |-> raw.exports,
                     helpers |-> DeclaredHelpers(modulePath),
                     partials |-> partialResolution.contents,
                     preprocess |-> None, postprocess |-> None,
                     partialFiles |-> partialResolution.files,
                     watchFiles |->
                         NormalizedWatchFiles(modulePath,
                             WatchEntries(DeclaredWatchFiles(modulePath),
                                          partialResolution.files,
                                          moduleDependencies)),
                     moduleDependencies |-> moduleDependencies],
                  reads |-> raw.reads \cup partialResolution.reads,
                  cache |-> raw.cache, depMap |-> raw.depMap]
        Resolve(raw) ==
            IF ~raw.ok THEN Failed("loadError", raw, raw.reads)
            ELSE Assemble(raw,
                     ResolvePartials(DeclaredPartials(modulePath), modulePath,
                         partialSourceOverrides,
                         [ok |-> TRUE, contents |-> <<>>, files |-> <<>>,
                          reads |-> {}, error |-> None]),
                     GetModuleDependenciesFor(modulePath, raw.depMap))
    IN  IF ~ModuleIsPresent(modulePath, moduleSource)
        THEN MissingModuleResult
        ELSE Resolve(LoadModuleExports(modulePath, moduleSource,
                                       moduleSourceOverrides))

(***************************************************************************)
(* What a companion module may supply to the watch list: `watchFiles`      *)
(* entries written relative, absolute, absolute but not normalized, or     *)
(* blank; partials given as file references, inline strings or null; and   *)
(* the dependencies recorded for the module.                               *)
(***************************************************************************)
DataJson == MkPath(<<"/", "w", "data">>, <<"json">>)
\* the same file, as `${__dirname}/./data.json` spells it
DataJsonDotted == MkPath(<<"/", "w", ".", "data">>, <<"json">>)
\* a partial file that is not on disk
PartialMissingRel == MkPath(<<"partials", "missing">>, <<"hbs">>)

WatchFileEntries ==
    {DataJsonRel, DataJson, DataJsonDotted, PartialHeaderRel, BlankPath}

MaxWatchFiles == 2

DeclaredWatchLists ==
    UNION {[1 .. n -> WatchFileEntries] : n \in 0 .. MaxWatchFiles}

DeclarableNames == <<"header", "note">>

\* TemplatePartialDefinition: a string, { file, encoding? }, null or undefined;
\* "file" with no path is { file: "" }, "object" is an object with no `file`
\* key at all, such as { encoding: "utf8" }
PartialDefinitions(name) ==
    {[name |-> name, kind |-> "file", file |-> Some(file), text |-> InlineText] :
        file \in {PartialHeaderRel, PartialHeaderDotted, PartialMissingRel}}
    \cup {[name |-> name, kind |-> "file", file |-> None, text |-> InlineText],
          [name |-> name, kind |-> "inline", file |-> None, text |-> InlineText],
          [name |-> name, kind |-> "object", file |-> None, text |-> InlineText],
          [name |-> name, kind |-> "null", file |-> None, text |-> InlineText]}

\* the partials objects a module may export: each name declared at most once
DeclaredPartialLists ==
    {<<>>} \cup {<<d>> : d \in PartialDefinitions(DeclarableNames[1])
                               \cup PartialDefinitions(DeclarableNames[2])}
    \cup {<<d, e>> : d \in PartialDefinitions(DeclarableNames[1]),
                     e \in PartialDefinitions(DeclarableNames[2])}

RecordedDependencies == {<<>>, <<HelperTs>>}

\* options.partialSourceOverrides: none, or the text of an unsaved partial
\* that is not on disk
PartialOverrides ==
    {<<>>, <<[key |-> Normalize(ResolveRelativeToModule(JsA, PartialMissingRel)),
              text |-> BufferText]>>}

Declarations ==
    [partials : DeclaredPartialLists, watchFiles : DeclaredWatchLists,
     moduleDependencies : RecordedDependencies,
     partialSourceOverrides : PartialOverrides]

\* loadTemplateRecipe from resolvePartials to the final watch list, for the
\* companion module of TemplateA
AssembleRecipe ==
    /\ declared # None
    /\ assembled = None
    /\ \E partialResolution \in
          {ResolvePartials(declared[1].partials, JsA,
               declared[1].partialSourceOverrides,
               [ok |-> TRUE, contents |-> <<>>, files |-> <<>>, reads |-> {},
                error |-> None])} :
          assembled' =
              Some([returned |-> partialResolution.ok,
                    error |-> partialResolution.error,
                    partials |-> partialResolution.contents,
                    partialFiles |-> partialResolution.files,
                    watchFiles |->
                        IF partialResolution.ok
                        THEN NormalizedWatchFiles(JsA,
                                 WatchEntries(declared[1].watchFiles,
                                              partialResolution.files,
                                              declared[1].moduleDependencies))
                        ELSE <<>>])
    /\ UNCHANGED <<loaderVars, exported, resolution, declared, frameVars,
                   renderVars, managerVars, windowVars>>

NextAssemble == AssembleRecipe

(***************************************************************************)
(* resolveRecipe.  A value is a string: "undefined", "null", or the name   *)
(* of the source that supplied it (a title is a string, preprocess and     *)
(* postprocess are functions, as TemplatePreviewRecipe types them).  A     *)
(* candidate is a function (with the candidate it returns), an object      *)
(* (with its nested keys, each <<>> when undefined, and its own recipe     *)
(* fields) or null.                                                        *)
(***************************************************************************)
MAX_RESOLUTION_DEPTH == 10
MaxNesting == 12

NestedKeys == <<"getPreviewRecipe", "getPreviewConfig", "getPreviewData", "default">>
RecipeKeys ==
    <<"title", "data", "helpers", "partials", "preprocess", "postprocess",
      "watchFiles">>

NoFields == [k \in Range(RecipeKeys) |-> "undefined"]
NoNested == [k \in Range(NestedKeys) |-> None]

FunctionReturning(candidate) ==
    [kind |-> "function", returns |-> Some(candidate), nested |-> NoNested,
     fields |-> NoFields]

ObjectWith(nested, fields) ==
    [kind |-> "object", returns |-> None, nested |-> nested, fields |-> fields]

NullValue ==
    [kind |-> "null", returns |-> None, nested |-> NoNested, fields |-> NoFields]

\* a recipe object whose title and data are as said, the values named `tag`
RecipeObject(tag, title, data) ==
    ObjectWith(NoNested,
        [NoFields EXCEPT !["title"] = IF title = "value" THEN tag ELSE title,
                         !["data"] = IF data = "value" THEN tag ELSE data])

Absent == [status |-> "undefined", recipe |-> NoFields]

\* mutant: at the cap the candidate counts as no recipe
DepthErrorSwallowed == Absent

\* throw new Error("Exceeded maximum depth ...")
DepthError == [status |-> "depthExceeded", recipe |-> NoFields]

(***************************************************************************)
(* Exports that contain themselves.  A value may be a reference to one of  *)
(* the objects and functions below, named by its kind; following the       *)
(* reference gives the object or function itself.                          *)
(***************************************************************************)
CyclicNames ==
    {"cyclicGetPreviewRecipe", "cyclicGetPreviewConfig", "cyclicGetPreviewData",
     "cyclicDefault", "factoryOfItself", "factoryOfCyclicObject"}

ReferenceTo(name) ==
    [kind |-> name, returns |-> None, nested |-> NoNested, fields |-> NoFields]

\* the nested key through which a cyclic object holds itself
CyclicKey(name) ==
    CASE name = "cyclicGetPreviewRecipe" -> "getPreviewRecipe"
      [] name = "cyclicGetPreviewConfig" -> "getPreviewConfig"
      [] name = "cyclicGetPreviewData" -> "getPreviewData"
      [] OTHER -> "default"

\* an object whose nested key is the object itself, a factory that returns
\* itself, a factory that returns an object whose default is the factory
Cyclic(name) ==
    IF name = "factoryOfItself" THEN FunctionReturning(ReferenceTo(name))
    ELSE IF name = "factoryOfCyclicObject"
         THEN FunctionReturning(
                  ObjectWith([NoNested EXCEPT !["default"] = Some(ReferenceTo(name))],
                             NoFields))
         ELSE ObjectWith([NoNested EXCEPT ![CyclicKey(name)] = Some(ReferenceTo(name))],
                         [NoFields EXCEPT !["title"] = "inline",
                                          !["data"] = "inline"])

\* the value a candidate is
Referent(candidate) ==
    IF candidate.kind \in CyclicNames THEN Cyclic(candidate.kind) ELSE candidate

\* mutant: the cap is reached one level early
DepthExceededAtCap(depth) == depth >= MAX_RESOLUTION_DEPTH

\* depth > MAX_RESOLUTION_DEPTH
DepthExceeded(depth) == depth > MAX_RESOLUTION_DEPTH

\* mutant: every field of the later recipe replaces the earlier one
MergeRecipesOverwriting(base, override) ==
    IF override.status # "ok" THEN base ELSE override

\* mergeRecipes(base, override)
MergeRecipes(base, override) ==
    IF override.status # "ok" THEN base
    ELSE [status |-> "ok",
          recipe |-> [k \in Range(RecipeKeys) |->
                         IF override.recipe[k] \notin {"undefined", "null"}
                         THEN override.recipe[k]
                         ELSE base.recipe[k]]]

\* inlineRecipe: the record's own fields; a title that is no string and a
\* hook that is no function are left out
InlineRecipe(record) ==
    [status |-> "ok",
     recipe |-> [k \in Range(RecipeKeys) |->
                    IF k \in {"title", "preprocess", "postprocess"}
                       /\ record.fields[k] = "null"
                    THEN "undefined"
                    ELSE record.fields[k]]]

RECURSIVE ResolveRecipe(_, _)
RECURSIVE ResolveNestedKeys(_, _, _, _)

\* the value of an expression evaluated once
Only(values) == CHOOSE value \in values : TRUE

\* the loop over nestedKeys from the i-th key on, then the inline recipe
ResolveNestedKeys(record, i, resolved, depth) ==
    IF i > Len(NestedKeys) THEN MergeRecipes(resolved, InlineRecipe(record))
    ELSE IF record.nested[NestedKeys[i]] = None
         THEN ResolveNestedKeys(record, i + 1, resolved, depth)
         ELSE Only({IF nested.status = "depthExceeded" THEN nested
                    ELSE Only({ResolveNestedKeys(record, i + 1, merged, depth) :
                                 merged \in {MergeRecipes(resolved, nested)}}) :
                       nested \in {ResolveRecipe(record.nested[NestedKeys[i]][1],
                                                 depth + 1)}})

\* resolveRecipe(candidate, context, depth)
ResolveRecipe(candidate, depth) ==
    IF DepthExceeded(depth) THEN DepthError
    ELSE Only({IF value.kind = "function"
               THEN ResolveRecipe(value.returns[1], depth + 1)
               ELSE IF value.kind # "object" THEN Absent
                    ELSE ResolveNestedKeys(value, 1, Absent, depth) :
                  value \in {Referent(candidate)}})

(***************************************************************************)
(* The exports resolved: objects exposing any of the nested keys next to   *)
(* inline fields, and recipes wrapped in chains of functions and keys.     *)
(***************************************************************************)
GivenKinds == {"undefined", "null", "value"}

\* what a nested key may hold: nothing, null, or a recipe object
NestedChoices(key) ==
    {None, Some(NullValue)}
    \cup {Some(RecipeObject(key, title, data)) :
            title \in GivenKinds, data \in GivenKinds}

SourceExports ==
    {ObjectWith([k \in Range(NestedKeys) |->
                    CASE k = "getPreviewRecipe" -> a
                      [] k = "getPreviewConfig" -> b
                      [] k = "getPreviewData" -> c
                      [] OTHER -> d],
                RecipeObject("inline", title, data).fields) :
        a \in NestedChoices("getPreviewRecipe"),
        b \in {None, Some(RecipeObject("getPreviewConfig", "value", "undefined")),
               Some(RecipeObject("getPreviewConfig", "null", "value"))},
        c \in {None, Some(RecipeObject("getPreviewData", "undefined", "value"))},
        d \in NestedChoices("default"),
        title \in GivenKinds, data \in GivenKinds}

WrapperKinds == {"function", "default", "getPreviewRecipe"}

RECURSIVE Wrap(_, _)
\* the recipe under the wrappers of the chain, the outermost first
Wrap(chain, inner) ==
    IF chain = <<>> THEN inner
    ELSE IF Head(chain) = "function"
         THEN FunctionReturning(Wrap(Tail(chain), inner))
         ELSE ObjectWith([k \in Range(NestedKeys) |->
                             IF k = Head(chain) THEN Some(Wrap(Tail(chain), inner))
                             ELSE None],
                         NoFields)

\* chains of every length up to MaxNesting: of one kind of wrapper, and of
\* every mix of wrappers for the lengths around the cap
Chains ==
    {[i \in 1 .. n |-> w] : n \in 0 .. MaxNesting, w \in WrapperKinds}
    \cup UNION {[1 .. n -> {"function", "default"}] : n \in 0 .. 3}
    \cup {[i \in 1 .. n |-> IF i <= 3 THEN head[i] ELSE tail[((i - 4) % 2) + 1]] :
            n \in 4 .. MaxNesting,
            head \in [1 .. 3 -> {"function", "default"}],
            tail \in [1 .. 2 -> WrapperKinds]}

ChainExports ==
    {Wrap(chain, RecipeObject("inner", "value", data)) :
        chain \in Chains, data \in {"undefined", "value"}}

Exports == SourceExports \cup ChainExports

\* cyclic exports: each of the cyclic values under up to MaxPrefix wrappers,
\* and next to a recipe that an earlier nested key supplies
MaxPrefix == 3

CyclicExports ==
    {Wrap(chain, Cyclic(name)) :
        chain \in UNION {[1 .. n -> WrapperKinds] : n \in 0 .. MaxPrefix},
        name \in CyclicNames}
    \cup {ObjectWith([NoNested EXCEPT
                         !["getPreviewRecipe"] =
                             Some(RecipeObject("getPreviewRecipe", "value", "value")),
                         !["default"] = Some(Cyclic(name))],
                     NoFields) :
            name \in CyclicNames}

\* the export of a module has been captured; resolveRecipe(raw, context, 0)
ResolveExport ==
    /\ exported # None
    /\ resolution = None
    /\ \E recipe \in {ResolveRecipe(exported[1], 0)} : resolution' = Some(recipe)
    /\ UNCHANGED <<loaderVars, exported, declared, assembled, frameVars,
                   renderVars, managerVars, windowVars>>

NextRecipe == ResolveExport

(***************************************************************************)
(* renderTemplate.  A template text is [ver, fault]: fault "syntax" makes  *)
(* the compiled template throw, "needsPartial" makes it throw unless a     *)
(* partial named "header" is registered.  Hooks are named by what they do. *)
(***************************************************************************)
TemplateTexts ==
    {[ver |-> 1, fault |-> "none"], [ver |-> 1, fault |-> "syntax"],
     [ver |-> 1, fault |-> "needsPartial"]}

PartialNames(partials) == {partials[i].name : i \in 1 .. Len(partials)}

\* recipe.preprocess(templateContent, context)
ApplyPreprocess(hook, templateContent) ==
    IF hook = "throws" THEN [ok |-> FALSE, text |-> templateContent, wrapped |-> FALSE]
    ELSE [ok |-> TRUE, text |-> templateContent, wrapped |-> TRUE]

\* compiled(recipe.data ?? {}) on an engine holding the given registrations
ExecuteTemplate(processed, engine, data) ==
    IF processed.text.fault = "syntax" THEN [ok |-> FALSE, body |-> None]
    ELSE IF processed.text.fault = "needsPartial"
            /\ "header" \notin PartialNames(engine.partials)
         THEN [ok |-> FALSE, body |-> None]
         ELSE [ok |-> TRUE,
               body |-> Some([template |-> processed.text,
                              wrapped |-> processed.wrapped,
                              data |-> data,
                              helpers |-> engine.helpers,
                              partials |-> engine.partials,
                              stripped |-> FALSE])]

\* recipe.postprocess(output, context)
ApplyPostprocess(hook, output) == [output EXCEPT !.stripped = TRUE]

\* renderTemplate from call to return: [ok, body]
RenderTemplate(templateContent, recipe) ==
    LET Finish(output) ==
            IF ~output.ok THEN [ok |-> FALSE, body |-> None]
            ELSE IF recipe.postprocess # None
                 THEN [ok |-> TRUE,
                       body |-> Some(ApplyPostprocess(recipe.postprocess[1],
                                                      output.body[1]))]
                 ELSE output
        Run(processed) ==
            IF ~processed.ok THEN [ok |-> FALSE, body |-> None]
            ELSE Finish(ExecuteTemplate(processed,
                            [helpers |-> recipe.helpers,
                             partials |-> recipe.partials],
                            recipe.data))
    IN  Run(IF recipe.preprocess # None
            THEN ApplyPreprocess(recipe.preprocess[1], templateContent)
            ELSE [ok |-> TRUE, text |-> templateContent, wrapped |-> FALSE])

(***************************************************************************)
(* renderTemplate as the steps it runs.  renderCall.pc is the step last    *)
(* completed; a hook that is absent is passed over without a call.         *)
(***************************************************************************)
RenderRecipes ==
    {[NoRecipe EXCEPT !.data = d, !.helpers = h, !.partials = ps,
                      !.preprocess = pre, !.postprocess = post] :
        d \in {{}, {<<JsA, 1>>}}, h \in {{}, {"upper"}},
        ps \in {<<>>, <<[name |-> "header", text |-> InlineText]>>},
        pre \in {None, Some("wrap"), Some("throws")},
        post \in {None, Some("strip")}}

IdleRender ==
    [pc |-> "idle", templateContent |-> None, recipe |-> None, engine |-> None,
     preprocessArg |-> None, processed |-> None, compiled |-> None,
     executeArg |-> None, output |-> None, postprocessArg |-> None,
     result |-> None, steps |-> <<>>]

InitRender == renderCall = IdleRender

\* mutant: the hook runs first, the registrations follow
StepAfterHookFirst(pc) ==
    CASE pc = "create" -> "preprocess"
      [] pc = "preprocess" -> "registerHelpers"
      [] pc = "registerHelpers" -> "registerPartials"
      [] pc = "registerPartials" -> "compile"
      [] pc = "compile" -> "execute"
      [] pc = "execute" -> "postprocess"
      [] OTHER -> "none"

\* the statement that follows each statement of renderTemplate
StepAfter(pc) ==
    CASE pc = "create" -> "registerHelpers"
      [] pc = "registerHelpers" -> "registerPartials"
      [] pc = "registerPartials" -> "preprocess"
      [] pc = "preprocess" -> "compile"
      [] pc = "compile" -> "execute"
      [] pc = "execute" -> "postprocess"
      [] OTHER -> "none"

\* const engine = Handlebars.create()
StartRenderTemplate ==
    /\ renderCall.pc = "idle"
    /\ \E templateContent \in TemplateTexts : \E recipe \in RenderRecipes :
         renderCall' = [IdleRender EXCEPT
                           !.pc = "create",
                           !.templateContent = Some(templateContent),
                           !.recipe = Some(recipe),
                           !.engine = Some([helpers |-> {}, partials |-> <<>>]),
                           !.steps = <<"create">>]
    /\ UNCHANGED <<loaderVars, recipeVars, frameVars, overlapVars, managerVars, windowVars>>

\* engine.registerHelper for every entry of recipe.helpers
RegisterHelpers ==
    /\ StepAfter(renderCall.pc) = "registerHelpers"
    /\ renderCall' = [renderCall EXCEPT
                         !.pc = "registerHelpers",
                         !.engine = Some([@[1] EXCEPT
                                            !.helpers = renderCall.recipe[1].helpers]),
                         !.steps = Append(@, "registerHelpers")]
    /\ UNCHANGED <<loaderVars, recipeVars, frameVars, overlapVars, managerVars, windowVars>>

\* engine.registerPartial for every entry of recipe.partials
RegisterPartials ==
    /\ StepAfter(renderCall.pc) = "registerPartials"
    /\ renderCall' = [renderCall EXCEPT
                         !.pc = "registerPartials",
                         !.engine = Some([@[1] EXCEPT
                                            !.partials = renderCall.recipe[1].partials]),
                         !.steps = Append(@, "registerPartials")]
    /\ UNCHANGED <<loaderVars, recipeVars, frameVars, overlapVars, managerVars, windowVars>>

\* processedTemplate = recipe.preprocess ? await recipe.preprocess(...) : templateContent
Preprocess ==
    /\ StepAfter(renderCall.pc) = "preprocess"
    /\ LET recipe == renderCall.recipe[1]
           templateContent == renderCall.templateContent[1]
       IN  IF recipe.preprocess = None
           THEN renderCall' = [renderCall EXCEPT
                    !.pc = "preprocess",
                    !.processed = Some([ok |-> TRUE, text |-> templateContent,
                                        wrapped |-> FALSE])]
           ELSE LET r == ApplyPreprocess(recipe.preprocess[1], templateContent)
                IN  renderCall' = [renderCall EXCEPT
                        !.pc = IF r.ok THEN "preprocess" ELSE "thrown",
                        !.preprocessArg = Some(templateContent),
                        !.processed = IF r.ok THEN Some(r) ELSE None,
                        !.steps = Append(@, "preprocess")]
    /\ UNCHANGED <<loaderVars, recipeVars, frameVars, overlapVars, managerVars, windowVars>>

\* const compiled = engine.compile(processedTemplate)
Compile ==
    /\ StepAfter(renderCall.pc) = "compile"
    /\ renderCall' = [renderCall EXCEPT
                         !.pc = "compile",
                         !.compiled = renderCall.processed,
                         !.steps = Append(@, "compile")]
    /\ UNCHANGED <<loaderVars, recipeVars, frameVars, overlapVars, managerVars, windowVars>>

\* const output = compiled(recipe.data ?? {})
Execute ==
    /\ StepAfter(renderCall.pc) = "execute"
    /\ LET r == ExecuteTemplate(renderCall.compiled[1], renderCall.engine[1],
                                renderCall.recipe[1].data)
       IN  renderCall' = [renderCall EXCEPT
                             !.pc = IF r.ok THEN "execute" ELSE "thrown",
                             !.executeArg = Some(renderCall.recipe[1].data),
                             !.output = r.body,
                             !.steps = Append(@, "execute")]
    /\ UNCHANGED <<loaderVars, recipeVars, frameVars, overlapVars, managerVars, windowVars>>

\* return recipe.postprocess ? recipe.postprocess(output, context) : output
Postprocess ==
    /\ StepAfter(renderCall.pc) = "postprocess"
    /\ LET recipe == renderCall.recipe[1]
       IN  IF recipe.postprocess = None
           THEN renderCall' = [renderCall EXCEPT
                    !.pc = "return", !.result = renderCall.output]
           ELSE renderCall' = [renderCall EXCEPT
                    !.pc = "return",
                    !.postprocessArg = renderCall.output,
                    !.result = Some(ApplyPostprocess(recipe.postprocess[1],
                                                     renderCall.output[1])),
                    !.steps = Append(@, "postprocess")]
    /\ UNCHANGED <<loaderVars, recipeVars, frameVars, overlapVars, managerVars, windowVars>>

\* the caller's await settles, with the result or the error
RenderSettles ==
    /\ renderCall.pc \in {"return", "thrown"}
    /\ renderCall' = IdleRender
    /\ UNCHANGED <<loaderVars, recipeVars, frameVars, overlapVars, managerVars, windowVars>>

NextRender ==
    \/ StartRenderTemplate
    \/ RegisterHelpers
    \/ RegisterPartials
    \/ Preprocess
    \/ Compile
    \/ Execute
    \/ Postprocess
    \/ RenderSettles

\* the steps compute what RenderTemplate computes
RenderStepsAgree ==
    LET whole == RenderTemplate(renderCall.templateContent[1], renderCall.recipe[1])
    IN  /\ renderCall.pc = "return" => (whole.ok /\ whole.body = renderCall.result)
        /\ renderCall.pc = "thrown" => ~whole.ok

(***************************************************************************)
(* renderTemplate called again while earlier calls are suspended.  The     *)
(* function runs without interruption up to `await recipe.preprocess(...)` *)
(* and, when the hook is absent, to its return; the rest runs when the     *)
(* hook's promise resolves.                                                *)
(***************************************************************************)
MaxCalls == 2
CallIds == 1 .. MaxCalls
DefaultInstance == 0
EngineHandles == {DefaultInstance} \cup CallIds

EmptyEngine == [helpers |-> {}, partials |-> <<>>]

OverlapRecipes ==
    {[NoRecipe EXCEPT !.helpers = h, !.partials = ps, !.preprocess = pre] :
        h \in {{}, {"upper"}, {"lower"}},
        ps \in {<<>>, <<[name |-> "header", text |-> InlineText]>>},
        pre \in {None, Some("wrap")}}

OverlapTemplates ==
    {[ver |-> 1, fault |-> "none"], [ver |-> 1, fault |-> "needsPartial"]}

IdleCall ==
    [pc |-> "idle", templateContent |-> None, recipe |-> None, handle |-> None,
     visible |-> None, result |-> None, overlapped |-> FALSE]

InitOverlap ==
    /\ calls = [c \in CallIds |-> IdleCall]
    /\ engines = [h \in EngineHandles |->
                     IF h = DefaultInstance THEN Some(EmptyEngine) ELSE None]

\* mutant: every call registers on the default instance of the package
HandlebarsDefaultInstance(engs) == [handle |-> DefaultInstance, engines |-> engs]

\* Handlebars.create(): a new environment, holding no registration
HandlebarsCreate(engs) ==
    LET Fresh(h) ==
            [handle |-> h, engines |-> [engs EXCEPT ![h] = Some(EmptyEngine)]]
    IN  Fresh(CHOOSE h \in CallIds :
                 engs[h] = None /\ \A g \in CallIds : engs[g] = None => h <= g)

\* engine.registerHelper / engine.registerPartial for every entry of the
\* recipe: a registration replaces the one of the same name
RegisterAll(engine, recipe) ==
    LET kept == SelectSeq(engine.partials,
                    LAMBDA e : e.name \notin PartialNames(recipe.partials))
    IN  [helpers |-> engine.helpers \cup recipe.helpers,
         partials |-> kept \o recipe.partials]

\* compile, execute and postprocess, on the engine as it is by now
RunCompiled(call, processed, engs) ==
    LET Finish(engine, output) ==
            [call EXCEPT !.pc = IF output.ok THEN "return" ELSE "thrown",
                         !.visible = Some(engine),
                         !.result = output.body]
        On(engine) ==
            Finish(engine, ExecuteTemplate(processed, engine, call.recipe[1].data))
    IN  On(engs[call.handle[1]][1])

\* renderTemplate(templateContent, recipe, context), up to its first await
BeginRenderTemplate(c) ==
    /\ calls[c].pc = "idle"
    /\ \E templateContent \in OverlapTemplates : \E recipe \in OverlapRecipes :
       \E created \in {HandlebarsCreate(engines)} :
       \E registered \in
            {[created.engines EXCEPT ![created.handle] =
                 Some(RegisterAll(@[1], recipe))]} :
       \E started \in
            {[IdleCall EXCEPT !.pc = "awaitPreprocess",
                              !.templateContent = Some(templateContent),
                              !.recipe = Some(recipe),
                              !.handle = Some(created.handle)]} :
         /\ engines' = registered
         /\ calls' =
              [d \in CallIds |->
                 IF d = c
                 THEN IF recipe.preprocess # None THEN started
                      ELSE RunCompiled(started,
                               [ok |-> TRUE, text |-> templateContent,
                                wrapped |-> FALSE],
                               registered)
                 ELSE IF calls[d].pc = "awaitPreprocess"
                      THEN [calls[d] EXCEPT !.overlapped = TRUE]
                      ELSE calls[d]]
    /\ UNCHANGED <<loaderVars, recipeVars, frameVars, renderCall, managerVars, windowVars>>

\* the promise of recipe.preprocess resolves and the call runs to its return
PreprocessResolves(c) ==
    /\ calls[c].pc = "awaitPreprocess"
    /\ calls' = [calls EXCEPT ![c] =
                    RunCompiled(calls[c],
                        ApplyPreprocess(calls[c].recipe[1].preprocess[1],
                                        calls[c].templateContent[1]),
                        engines)]
    /\ UNCHANGED <<loaderVars, recipeVars, frameVars, renderCall, engines, managerVars,
                   windowVars>>

\* the caller's await settles; the environment created by the call is
\* referenced no more
RenderTemplateSettles(c) ==
    /\ calls[c].pc \in {"return", "thrown"}
    /\ calls' = [calls EXCEPT ![c] = IdleCall]
    /\ engines' = [h \in EngineHandles |->
                      IF h = calls[c].handle[1] /\ h # DefaultInstance THEN None
                      ELSE engines[h]]
    /\ UNCHANGED <<loaderVars, recipeVars, frameVars, renderCall, managerVars, windowVars>>

BeginCall == \E c \in CallIds : BeginRenderTemplate(c)

ResumeCall == \E c \in CallIds : PreprocessResolves(c)

SettleCall == \E c \in CallIds : RenderTemplateSettles(c)

NextOverlap == BeginCall \/ ResumeCall \/ SettleCall

(***************************************************************************)
(* The loader as a state machine: calls of loadTemplateRecipe, one at a    *)
(* time, with edits of the files in between.                               *)
(***************************************************************************)
DependencyFiles == {HelperTs}

\* the source a dependency is to be executed from: its override, else disk
CurrentSource(file, moduleSourceOverrides) ==
    LET Pick(override) == IF override # None THEN override ELSE disk[file]
    IN  Pick(GetModuleOverride(moduleSourceOverrides, file))

OverrideSources == {BufferText, [ver |-> 0, fault |-> "late"]}

ModuleSourceOverrideChoices(root) ==
    IF Extname(root) = "ts"
    THEN {<<>>, <<[key |-> HelperTs, text |-> BufferText]>>}
    ELSE {<<>>}

PartialOverrideChoices(root) ==
    IF DeclaredPartials(root) # <<>>
    THEN {<<>>, <<[key |-> PartialHeader, text |-> BufferText]>>,
          <<[key |-> PartialHeaderDotted, text |-> BufferText]>>}
    ELSE {<<>>}

(***************************************************************************)
(* The TypeScript compiler contexts (tsCompiler.ts).  tsCompiler holds the *)
(* two module-level caches, the tsconfig.json files that exist, and what   *)
(* the latest call of getCompilerContext was given and returned.  A        *)
(* directory is a list of segments; a configuration file is named by its   *)
(* directory.  The configuration of the workspace declares rootDir "lib",  *)
(* the one beside the external file declares none.  An entry of            *)
(* configLookupCache is <<>> (no entry), <<<<>>>> (null) or <<<<dir>>>>.   *)
(***************************************************************************)
WorkspaceDir == <<"/", "w">>
LibDir == <<"/", "w", "lib">>
ExternalDir == <<"/", "x">>
ExtTs == MkPath(<<"/", "x", "ext">>, <<"ts">>)
ConfigDirs == {WorkspaceDir, ExternalDir}
SearchRoots == {WorkspaceDir, LibDir, ExternalDir}
CompiledFiles == {HelperTs, DeepTs, ExtTs}
WorkspaceFolders == {None, Some(WorkspaceDir)}

\* compilerOptions.rootDir of the configuration file in a directory
DeclaredRootDir(configDir) ==
    IF configDir = WorkspaceDir THEN Some(<<"lib">>) ELSE None

\* isWithinDirectory(filePath, directory): path.relative does not climb
IsWithinDirectory(filePath, directory) ==
    /\ Len(directory) <= Len(filePath.segs)
    /\ SubSeq(filePath.segs, 1, Len(directory)) = directory

\* ts.findConfigFile(searchRoot, fileExists): the tsconfig.json of the
\* directory or of its nearest ancestor that has one
FindConfigFile(searchRoot, exists) ==
    LET hits == {d \in ConfigDirs :
                    /\ exists[d]
                    /\ Len(d) <= Len(searchRoot)
                    /\ SubSeq(searchRoot, 1, Len(d)) = d}
    IN  IF hits = {} THEN None
        ELSE Some(CHOOSE d \in hits : \A e \in hits : Len(e) <= Len(d))

\* mutant: the workspace root is searched before the file's directory
SearchOrderWorkspaceFirst(filePath, workspaceFolder) ==
    (IF workspaceFolder # None THEN <<workspaceFolder[1]>> ELSE <<>>)
    \o <<Dirname(filePath)>>

\* findTsConfigPath: the search roots in order
SearchOrder(filePath, workspaceFolder) ==
    <<Dirname(filePath)>>
    \o (IF workspaceFolder # None THEN <<workspaceFolder[1]>> ELSE <<>>)

RECURSIVE FindTsConfigPathFrom(_, _, _)
\* findTsConfigPath, the loop over the search roots: [configPath, cache]
FindTsConfigPathFrom(searchOrder, cache, exists) ==
    IF searchOrder = <<>> THEN [configPath |-> None, cache |-> cache]
    ELSE LET key == NormalizeSegs(Head(searchOrder), <<>>)
         IN  IF cache[key] # None
             THEN IF cache[key][1] # None
                  THEN [configPath |-> cache[key][1], cache |-> cache]
                  ELSE FindTsConfigPathFrom(Tail(searchOrder), cache, exists)
             ELSE LET resolved == FindConfigFile(Head(searchOrder), exists)
                      stored == [cache EXCEPT ![key] = Some(resolved)]
                  IN  IF resolved # None
                      THEN [configPath |-> resolved, cache |-> stored]
                      ELSE FindTsConfigPathFrom(Tail(searchOrder), stored, exists)

FindTsConfigPath(filePath, workspaceFolder, cache, exists) ==
    FindTsConfigPathFrom(SearchOrder(filePath, workspaceFolder), cache, exists)

\* the keys of compilerContextCache
ContextKeys ==
    {[kind |-> k, dir |-> d] :
        k \in {"default", "config", "noRootDir"}, d \in SearchRoots}

\* getCompilerContext once the configuration path is known:
\* [context, cache], the context being [options, baseDir, originalRootDir]
CompilerContextFor(filePath, workspaceFolder, configPath, contexts) ==
    IF configPath = None
    THEN LET baseDir == IF workspaceFolder # None THEN workspaceFolder[1]
                        ELSE Dirname(filePath)
             cacheKey == [kind |-> "default", dir |-> baseDir]
             context == [options |-> [rootDir |-> None], baseDir |-> baseDir,
                         originalRootDir |-> None]
         IN  IF contexts[cacheKey] # None
             THEN [context |-> contexts[cacheKey][1], cache |-> contexts]
             ELSE [context |-> context,
                   cache |-> [contexts EXCEPT ![cacheKey] = Some(context)]]
    ELSE LET baseDir == configPath[1]
             baseKey == [kind |-> "config", dir |-> baseDir]
             rootlessKey == [kind |-> "noRootDir", dir |-> baseDir]
             cachedBase == contexts[baseKey]
             cachedRootless == contexts[rootlessKey]
             configured == DeclaredRootDir(baseDir)
             originalRootDir ==
                 IF configured # None
                 THEN Some(NormalizeSegs(baseDir \o configured[1], <<>>))
                 ELSE None
             outside == /\ originalRootDir # None
                        /\ ~IsWithinDirectory(filePath, originalRootDir[1])
             context == [options |-> [rootDir |-> IF outside THEN None
                                                  ELSE configured],
                         baseDir |-> baseDir,
                         originalRootDir |-> originalRootDir]
         IN  IF /\ cachedBase # None
                /\ \/ cachedBase[1].originalRootDir = None
                   \/ IsWithinDirectory(filePath,
                                        cachedBase[1].originalRootDir[1])
             THEN [context |-> cachedBase[1], cache |-> contexts]
             ELSE IF cachedRootless # None
             THEN [context |-> cachedRootless[1], cache |-> contexts]
             ELSE [context |-> context,
                   cache |-> [contexts EXCEPT
                                ![IF outside THEN rootlessKey ELSE baseKey] =
                                    Some(context)]]

NoCompile ==
    [called |-> FALSE, filePath |-> HelperTs, workspaceFolder |-> None,
     exists |-> [d \in ConfigDirs |-> FALSE],
     lookupBefore |-> [r \in SearchRoots |-> None],
     configPath |-> None,
     context |-> [options |-> [rootDir |-> None], baseDir |-> WorkspaceDir,
                  originalRootDir |-> None]]

IdleCompiler ==
    [exists |-> [d \in ConfigDirs |-> d = WorkspaceDir],
     configLookupCache |-> [r \in SearchRoots |-> None],
     compilerContextCache |-> [k \in ContextKeys |-> None],
     last |-> NoCompile]

\* getCompilerContext(filePath, workspaceFolder), which
\* transpileTypeScriptModule and resolveTypeScriptImport call first
GetCompilerContext(filePath, workspaceFolder) ==
    /\ \E found \in {FindTsConfigPath(filePath, workspaceFolder,
                                      tsCompiler.configLookupCache,
                                      tsCompiler.exists)} :
       \E made \in {CompilerContextFor(filePath, workspaceFolder,
                                       found.configPath,
                                       tsCompiler.compilerContextCache)} :
          tsCompiler' =
              [tsCompiler EXCEPT
                 !.configLookupCache = found.cache,
                 !.compilerContextCache = made.cache,
                 !.last = [called |-> TRUE, filePath |-> filePath,
                           workspaceFolder |-> workspaceFolder,
                           exists |-> tsCompiler.exists,
                           lookupBefore |-> tsCompiler.configLookupCache,
                           configPath |-> found.configPath,
                           context |-> made.context]]
    /\ UNCHANGED <<moduleLoadStack, rootLoad, loaderVars, recipeVars,
                   renderVars, managerVars, windowVars>>

\* a tsconfig.json is created or deleted
ConfigFileChanges(dir) ==
    /\ tsCompiler' = [tsCompiler EXCEPT !.exists[dir] = ~@]
    /\ UNCHANGED <<moduleLoadStack, rootLoad, loaderVars, recipeVars,
                   renderVars, managerVars, windowVars>>

CompileSome ==
    \E filePath \in CompiledFiles : \E workspaceFolder \in WorkspaceFolders :
        GetCompilerContext(filePath, workspaceFolder)

ConfigChanges == \E dir \in ConfigDirs : ConfigFileChanges(dir)

NextCompiler == CompileSome \/ ConfigChanges

(***************************************************************************)
(* The load-frame stack, step by step.  One load of a root module runs the *)
(* module's top-level requires, each .ts file through the extension        *)
(* handler and a frame of its own, and resolveRecipe then invokes the      *)
(* exported factory, which requires a module when it runs.  rootLoad says  *)
(* what the load is doing: activations are the module bodies, and the      *)
(* factory, on the call stack; contexts are the ModuleLoadContext objects  *)
(* the load created; cached and depMap are the require cache and the       *)
(* dependency map; sources tells how each file behaves ("missing" is a     *)
(* file that is not there); touched are the files the load transpiled or   *)
(* resolved through the fallback; before is the root's map entry when the  *)
(* load was called.                                                        *)
(***************************************************************************)
ChainRoot == TsA
ChainFiles == {TsA, HelperTs, DeepTs, LazyTs}

\* the requires at the top level of each module of the chain; the helper
\* saved as "plain" requires nothing
ChainImports(file, source) ==
    IF file = TsA THEN <<[kind |-> "relative", target |-> HelperTs]>>
    ELSE IF file = HelperTs /\ source # "plain"
         THEN <<[kind |-> "alias", target |-> DeepTs]>>
         ELSE <<>>

\* the requires the exported factory of a module makes when it is invoked
FactoryImports(file) ==
    IF file = TsA THEN <<[kind |-> "relative", target |-> LazyTs]>> ELSE <<>>

\* the ways each file of the chain is saved
ChainSources(file) ==
    IF file = TsA THEN {"none", "early", "late"}
    ELSE IF file = HelperTs THEN {"none", "plain", "late"}
    ELSE IF file = DeepTs THEN {"none", "missing"}
    ELSE {"none", "early"}

IdleChain ==
    [pc |-> "idle", status |-> "none", failedIn |-> "none",
     activations |-> <<>>, contexts |-> <<>>,
     cached |-> [f \in ChainFiles |-> None],
     depMap |-> [f \in ChainFiles |-> None],
     sources |-> [f \in ChainFiles |-> "none"],
     touched |-> {}, before |-> None]

\* no editor has the focus, no preview is open
InitWindow ==
    /\ activeTextEditor = None
    /\ activePanel = None
    /\ otherSessions = {}

InitFrames ==
    /\ moduleLoadStack = <<>>
    /\ rootLoad = IdleChain
    /\ tsCompiler = IdleCompiler
    /\ InitWindow

Front(seq) == SubSeq(seq, 1, Len(seq) - 1)

\* withModuleLoadFrame up to the call of the loader: the frame is pushed,
\* with a context of its own when it is a root and the context of the top
\* frame otherwise
PushFrame(stack, contexts, modulePath, treatAsRoot) ==
    IF treatAsRoot \/ stack = <<>>
    THEN [stack |-> Append(stack, [modulePath |-> Normalize(modulePath),
                                   context |-> Len(contexts) + 1,
                                   isRoot |-> TRUE]),
          contexts |-> Append(contexts, [root |-> Normalize(modulePath),
                                         dependencies |-> <<>>])]
    ELSE [stack |-> Append(stack, [modulePath |-> Normalize(modulePath),
                                   context |-> stack[Len(stack)].context,
                                   isRoot |-> FALSE]),
          contexts |-> contexts]

\* mutant: the frame is popped only when the loader returned
PopFrameUnlessThrown(stack, success) ==
    IF success THEN Front(stack) ELSE stack

\* the finally block of withModuleLoadFrame: moduleLoadStack.pop()
PopFrame(stack, success) == Front(stack)

\* mutant: the set accumulated by a failed root load is kept in the map
CloseFrameKeepsPartial(depMap, frame, contexts, success) ==
    IF ~frame.isRoot THEN depMap
    ELSE [depMap EXCEPT ![contexts[frame.context].root] =
                            Some(contexts[frame.context].dependencies)]

\* the finally block of withModuleLoadFrame: the entry of a root frame is
\* set when the loader returned and deleted when it threw
CloseFrame(depMap, frame, contexts, success) ==
    IF ~frame.isRoot THEN depMap
    ELSE [depMap EXCEPT ![contexts[frame.context].root] =
                            IF success
                            THEN Some(contexts[frame.context].dependencies)
                            ELSE None]

\* recordModuleDependency: into the context of the top frame, if any
RecordModuleDependency(stack, contexts, filePath) ==
    IF stack = <<>> THEN contexts
    ELSE [contexts EXCEPT ![stack[Len(stack)].context].dependencies =
                              AddDep(@, Normalize(filePath))]

\* loadModuleExports is called for the root: its tree is invalidated, the
\* text is transpiled, and loadModuleFromSource pushes the root frame
BeginRootLoad ==
    /\ rootLoad.pc \in {"idle", "done"}
    /\ \E inv \in {InvalidateModuleTree(ChainRoot, rootLoad.cached, rootLoad.depMap)} :
       \E started \in {[rootLoad EXCEPT !.status = "none", !.failedIn = "none",
                                     !.cached = inv.cache, !.depMap = inv.depMap,
                                     !.touched = {}, !.contexts = <<>>,
                                     !.before = rootLoad.depMap[ChainRoot]]} :
          IF rootLoad.sources[ChainRoot] = "early"
          THEN /\ rootLoad' = [started EXCEPT !.pc = "done", !.status = "failed",
                                           !.failedIn = "root"]
               /\ UNCHANGED moduleLoadStack
          ELSE \E pushed \in {PushFrame(moduleLoadStack, <<>>, ChainRoot, TRUE)} :
                 /\ moduleLoadStack' = pushed.stack
                 /\ rootLoad' = [started EXCEPT
                                !.pc = "running",
                                !.contexts = pushed.contexts,
                                !.activations =
                                    <<[file |-> ChainRoot, next |-> 1,
                                       kind |-> "root"]>>]
    /\ UNCHANGED <<tsCompiler, loaderVars, recipeVars, renderVars, managerVars, windowVars>>

\* the code on top of the call stack makes its next require: the request
\* is resolved (the fallback records what it resolves), a cached module is
\* returned as it is, and any other goes through registerTsModule, which
\* pushes a frame and transpiles
RequireNext ==
    /\ rootLoad.pc = "running"
    /\ rootLoad.activations # <<>>
    /\ \E top \in {rootLoad.activations[Len(rootLoad.activations)]} :
       \E imports \in {IF top.kind = "factory" THEN FactoryImports(top.file)
                       ELSE ChainImports(top.file,
                                         rootLoad.sources[top.file])} :
         /\ top.next <= Len(imports)
         /\ \E imp \in {imports[top.next]} :
            \E recorded \in {IF imp.kind = "alias"
                             THEN RecordModuleDependency(moduleLoadStack,
                                      rootLoad.contexts, imp.target)
                             ELSE rootLoad.contexts} :
            \E touched \in {IF imp.kind = "alias"
                            THEN rootLoad.touched \cup {imp.target}
                            ELSE rootLoad.touched} :
              IF rootLoad.sources[imp.target] = "missing"
              THEN /\ rootLoad' = [rootLoad EXCEPT !.pc = "unwinding"]
                   /\ UNCHANGED moduleLoadStack
              ELSE IF rootLoad.cached[imp.target] # None
              THEN /\ rootLoad' =
                        [rootLoad EXCEPT
                           !.contexts = recorded, !.touched = touched,
                           !.activations[Len(rootLoad.activations)].next = @ + 1]
                   /\ UNCHANGED moduleLoadStack
              ELSE \E pushed \in {PushFrame(moduleLoadStack, recorded, imp.target,
                                            moduleLoadStack = <<>>)} :
                     /\ moduleLoadStack' = pushed.stack
                     /\ rootLoad' =
                          [rootLoad EXCEPT
                             !.pc = IF rootLoad.sources[imp.target] = "early"
                                    THEN "unwinding" ELSE "running",
                             !.contexts = pushed.contexts,
                             !.touched = touched \cup {imp.target},
                             !.activations =
                                 Append(@, [file |-> imp.target, next |-> 1,
                                            kind |-> "ts"])]
    /\ UNCHANGED <<tsCompiler, loaderVars, recipeVars, renderVars, managerVars, windowVars>>

\* the module body on top of the call stack has made its requires: it
\* throws, or it returns; registerTsModule then records the file, the
\* finally block pops the frame and sets the entry of a root frame, and
\* the root's exports go to resolveRecipe, which invokes the factory
ModuleReturns ==
    /\ rootLoad.pc = "running"
    /\ rootLoad.activations # <<>>
    /\ moduleLoadStack # <<>>
    /\ \E top \in {rootLoad.activations[Len(rootLoad.activations)]} :
         /\ top.kind \in {"root", "ts"}
         /\ top.next > Len(ChainImports(top.file, rootLoad.sources[top.file]))
         /\ IF rootLoad.sources[top.file] = "late"
            THEN /\ rootLoad' = [rootLoad EXCEPT !.pc = "unwinding"]
                 /\ UNCHANGED moduleLoadStack
            ELSE \E frame \in {moduleLoadStack[Len(moduleLoadStack)]} :
                 \E recorded \in {IF top.kind = "ts"
                                  THEN RecordModuleDependency(moduleLoadStack,
                                           rootLoad.contexts, top.file)
                                  ELSE rootLoad.contexts} :
                 \E rest \in {Front(rootLoad.activations)} :
                   /\ moduleLoadStack' = PopFrame(moduleLoadStack, TRUE)
                   /\ rootLoad' =
                        [rootLoad EXCEPT
                           !.contexts = recorded,
                           !.cached[top.file] = Some("exports"),
                           !.depMap = CloseFrame(@, frame, recorded, TRUE),
                           !.activations =
                               IF top.kind = "root"
                               THEN <<[file |-> top.file, next |-> 1,
                                       kind |-> "factory"]>>
                               ELSE [rest EXCEPT ![Len(rest)].next = @ + 1]]
    /\ UNCHANGED <<tsCompiler, loaderVars, recipeVars, renderVars, managerVars, windowVars>>

\* the factory has made its requires and returns: the load is over
FactoryReturns ==
    /\ rootLoad.pc = "running"
    /\ rootLoad.activations # <<>>
    /\ \E top \in {rootLoad.activations[Len(rootLoad.activations)]} :
         /\ top.kind = "factory"
         /\ top.next > Len(FactoryImports(top.file))
    /\ rootLoad' = [rootLoad EXCEPT !.pc = "done", !.status = "ok",
                              !.activations = <<>>]
    /\ UNCHANGED <<moduleLoadStack, tsCompiler, loaderVars, recipeVars,
                   renderVars, managerVars, windowVars>>

\* an exception leaves the function on top of the call stack: the finally
\* block of its withModuleLoadFrame pops the frame and deletes the entry
\* of a root frame; past the factory, or past the root, the load has failed
Unwind ==
    /\ rootLoad.pc = "unwinding"
    /\ IF rootLoad.activations = <<>>
          \/ rootLoad.activations[Len(rootLoad.activations)].kind = "factory"
       THEN /\ rootLoad' = [rootLoad EXCEPT
                           !.pc = "done", !.status = "failed",
                           !.failedIn = IF rootLoad.activations = <<>> THEN "root"
                                        ELSE "factory",
                           !.activations = <<>>]
            /\ UNCHANGED moduleLoadStack
       ELSE /\ moduleLoadStack # <<>>
            /\ \E frame \in {moduleLoadStack[Len(moduleLoadStack)]} :
                 /\ moduleLoadStack' = PopFrame(moduleLoadStack, FALSE)
                 /\ rootLoad' =
                      [rootLoad EXCEPT
                         !.depMap = CloseFrame(@, frame, rootLoad.contexts, FALSE),
                         !.activations = Front(@)]
    /\ UNCHANGED <<tsCompiler, loaderVars, recipeVars, renderVars, managerVars, windowVars>>

\* between two loads a file of the chain is saved, deleted or restored
SaveChainFile ==
    /\ rootLoad.pc \in {"idle", "done"}
    /\ \E f \in ChainFiles : \E source \in ChainSources(f) :
         /\ rootLoad.sources[f] # source
         /\ rootLoad' = [rootLoad EXCEPT !.sources[f] = source]
    /\ UNCHANGED <<moduleLoadStack, tsCompiler, loaderVars, recipeVars,
                   renderVars, managerVars, windowVars>>

NextFrames ==
    \/ BeginRootLoad
    \/ RequireNext
    \/ ModuleReturns
    \/ FactoryReturns
    \/ Unwind
    \/ SaveChainFile

NoLoad ==
    [status |-> "none", modulePath |-> JsA, moduleSource |-> None,
     existed |-> FALSE, cacheBefore |-> [f \in ModuleFiles |-> None],
     supplied |-> None, current |-> [f \in DependencyFiles |-> None],
     moduleSourceOverrides |-> <<>>, partialSourceOverrides |-> <<>>,
     recipe |-> NoRecipe, reads |-> {}]

InitLoader ==
    /\ InitFrames
    /\ disk = [f \in Files |-> Some(Good(1))]
    /\ requireCache = [f \in ModuleFiles |-> None]
    /\ moduleDependencyMap = [f \in ModuleFiles |-> None]
    /\ lastLoad = NoLoad
    /\ edits = 0

\* a caller awaits loadTemplateRecipe(modulePath, context, options)
CallLoadTemplateRecipe(root, moduleSource, moduleSourceOverrides, partialSourceOverrides) ==
    \E r \in {LoadTemplateRecipe(root, moduleSource, moduleSourceOverrides,
                                 partialSourceOverrides)} :
        /\ requireCache' = r.cache
        /\ moduleDependencyMap' = r.depMap
        /\ lastLoad' =
             [status |-> r.status, modulePath |-> root,
              moduleSource |-> moduleSource,
              existed |-> FileExists(root), cacheBefore |-> requireCache,
              supplied |-> IF moduleSource # None THEN moduleSource ELSE disk[root],
              current |-> [f \in DependencyFiles |->
                              CurrentSource(f, moduleSourceOverrides)],
              moduleSourceOverrides |-> moduleSourceOverrides,
              partialSourceOverrides |-> partialSourceOverrides,
              recipe |-> r.recipe, reads |-> r.reads]
        /\ UNCHANGED <<disk, edits, recipeVars, frameVars, renderVars, managerVars, windowVars>>

\* a file is saved or created on disk
WriteFile(f, s) ==
    /\ edits < MaxEdits
    /\ disk[f] # Some(s)
    /\ disk' = [disk EXCEPT ![f] = Some(s)]
    /\ edits' = edits + 1
    /\ UNCHANGED <<requireCache, moduleDependencyMap, lastLoad, recipeVars, frameVars,
                   renderVars, managerVars, windowVars>>

\* a file is deleted from disk
DeleteFile(f) ==
    /\ edits < MaxEdits
    /\ disk[f] # None
    /\ disk' = [disk EXCEPT ![f] = None]
    /\ edits' = edits + 1
    /\ UNCHANGED <<requireCache, moduleDependencyMap, lastLoad, recipeVars, frameVars,
                   renderVars, managerVars, windowVars>>

ModuleSourceChoices == {None} \cup {Some(s) : s \in OverrideSources}

(***************************************************************************)
(* Root loads: a .js and a .ts companion module, loaded from disk or from  *)
(* an override, edited and deleted in between.                             *)
(***************************************************************************)
LoadRoot ==
    \E root \in {JsA, TsA} : \E moduleSource \in ModuleSourceChoices :
      CallLoadTemplateRecipe(root, moduleSource, <<>>, <<>>)

EditRoot == \E f \in {JsA, TsA} : \E s \in Sources : WriteFile(f, s)

DeleteRoot == \E f \in {JsA, TsA} : DeleteFile(f)

NextLoader == LoadRoot \/ EditRoot \/ DeleteRoot

(***************************************************************************)
(* Dependency tracking: two TypeScript roots importing the same helper,    *)
(* loads that succeed or throw, edits of the helper in between.            *)
(***************************************************************************)
LoadTsRoot ==
    \E root \in {TsA, TsB} : \E moduleSource \in ModuleSourceChoices :
      \E mso \in ModuleSourceOverrideChoices(root) :
        CallLoadTemplateRecipe(root, moduleSource, mso, <<>>)

EditHelper == \E s \in GoodSources : WriteFile(HelperTs, s)

NextDeps == LoadTsRoot \/ EditHelper

(***************************************************************************)
(* Partials: a module with a file-backed partial, loaded with and without  *)
(* partial overrides while the partial file is edited or deleted.          *)
(***************************************************************************)
LoadWithPartials ==
    \E moduleSource \in {None, Some(BufferText)} :
      \E pso \in PartialOverrideChoices(JsA) :
        CallLoadTemplateRecipe(JsA, moduleSource, <<>>, pso)

EditPartial == \E s \in GoodSources : WriteFile(PartialHeader, s)

DeletePartial == DeleteFile(PartialHeader)

NextPartials == LoadWithPartials \/ EditPartial \/ DeletePartial

(***************************************************************************)
(* The preview session manager.  A session is                              *)
(*   [panel, activeModulePath, renderTimer, rendering, trackedPartials,    *)
(*    watchTargets, moduleWatchers, coalesced]                             *)
(* where renderTimer is the handle of the session's debounce timer,        *)
(* rendering holds the renders invoked and not yet completed (each with    *)
(* the template text and the dirty documents it read when it started),     *)
(* watchTargets and moduleWatchers are the paths of the session's extra    *)
(* and module watchers, and coalesced counts the non-immediate requests    *)
(* made since the last render was invoked.                                 *)
(***************************************************************************)
Templates == {TemplateA, TemplateB}
EditorFiles == <<TemplateA, TemplateB, JsA, TsA, JsB, HelperTs, PartialHeader>>
IndexKeys == Range(EditorFiles) \cup {TsB}

\* index.get(key), as the set of its members
BucketOf(index, key) == IF index[key] = None THEN {} ELSE index[key][1]

\* mutant: the bucket is deleted with every session it holds
UntrackDeletesBucket(index, keys, t, held) ==
    [k \in DOMAIN index |-> IF k \in keys THEN None ELSE index[k]]

\* mutant: a bucket emptied by the removal stays in the index
UntrackKeepsBucket(index, keys, t, held) ==
    [k \in DOMAIN index |->
        IF k \in keys /\ index[k] # None THEN Some(index[k][1] \ {t})
        ELSE index[k]]

\* untrackModuleSessions, untrackPartialSession for each of the keys: the
\* session leaves the bucket, and a bucket left with no member is deleted;
\* held are the keys whose bucket holds a session object outside the map
Untrack(index, keys, t, held) ==
    [k \in DOMAIN index |->
        IF k \in keys /\ index[k] # None
        THEN IF index[k][1] \ {t} = {} /\ k \notin held THEN None
             ELSE Some(index[k][1] \ {t})
        ELSE index[k]]

\* trackModuleSessions, trackPartialSession for each of the keys: the bucket
\* is created when the key has none, and the session is added to it
Track(index, keys, t) ==
    [k \in DOMAIN index |->
        IF k \in keys THEN Some(BucketOf(index, k) \cup {t}) ELSE index[k]]

\* mutant: the .ts companion is looked for before the .js one
DeriveModuleCandidatesTsFirst(template) ==
    Dedupe(<<Normalize(WithExt(template, "ts")),
             Normalize(WithExt(template, "js"))>>, <<>>)

\* deriveModuleCandidates
DeriveModuleCandidates(template) ==
    Dedupe(<<Normalize(WithExt(template, "js")),
             Normalize(WithExt(template, "ts"))>>, <<>>)

Placeholder == [kind |-> "placeholder", title |-> None, body |-> None]

\* showError: the error page, under the default title
ErrorPage(cause) == [kind |-> "error", title |-> None, body |-> Some(cause)]

\* mutant: the error is not shown, the panel keeps what it showed
PanelKeptOnFailure(panel, cause) == panel

\* the catch clauses of render and of invoke: showError(session, error)
PanelAfterFailure(panel, cause) == ErrorPage(cause)

NewSession ==
    [panel |-> Placeholder, activeModulePath |-> None, renderTimer |-> None,
     rendering |-> <<>>, trackedPartials |-> {}, watchTargets |-> {},
     moduleWatchers |-> {}, coalesced |-> 0]

\* document.getText() of the template's document
TemplateContentIn(bufs, template) ==
    IF bufs[template] # None THEN bufs[template][1] ELSE disk[template][1]

TemplateContent(template) == TemplateContentIn(buffers, template)

RECURSIVE DirtyFrom(_, _)
\* collectDirtyDocumentOverrides: the dirty documents in the editor's order,
\* keyed by their normalized paths
DirtyFrom(files, bufs) ==
    IF files = <<>> THEN <<>>
    ELSE LET f == Head(files)
             rest == DirtyFrom(Tail(files), bufs)
         IN  IF bufs[f] # None
             THEN <<[key |-> Normalize(f), text |-> bufs[f][1]]>> \o rest
             ELSE rest

CollectDirtyDocumentOverrides == DirtyFrom(EditorFiles, buffers)

\* what render reads before its first file-system await: the text of the
\* template document and the dirty documents; byTimer tells the call of
\* invoke that setTimeout made from the one scheduleRender made itself;
\* loaded holds the recipe once loadTemplateRecipe has resolved and the
\* render awaits renderTemplate
RenderInputs(template, bufs) ==
    [templateContent |-> TemplateContentIn(bufs, template),
     dirtyOverrides |-> DirtyFrom(EditorFiles, bufs),
     byTimer |-> FALSE, loaded |-> None]

\* mutant: the pending timer is left armed
ClearTimeoutKeeps(armed, id) == armed

\* clearTimeout(session.renderTimer)
ClearTimeout(armed, id) == armed \ {id}

\* the handle setTimeout returns: one no armed timer has
SetTimeout(armed) ==
    CHOOSE id \in 1 .. Cardinality(armed) + 1 :
        id \notin armed /\ \A j \in 1 .. id - 1 : j \in armed

\* invoke: the timer handle is dropped and render(session) is called
Invoke(session, inputs) ==
    [session EXCEPT !.renderTimer = None, !.coalesced = 0,
                    !.rendering = Append(@, inputs)]

\* mutant: an immediate request starts its render and leaves the pending
\* timer armed
ScheduleRenderBesideTimer(entry, immediate, inputs) ==
    IF immediate
    THEN [session |-> Some(Invoke(entry.session[1], inputs)),
          armed |-> entry.armed]
    ELSE LET cleared == IF entry.session[1].renderTimer # None
                        THEN ClearTimeout(entry.armed,
                                          entry.session[1].renderTimer[1])
                        ELSE entry.armed
         IN  [session |-> Some([entry.session[1] EXCEPT
                                   !.renderTimer = Some(SetTimeout(cleared)),
                                   !.coalesced = @ + 1]),
              armed |-> cleared \cup {SetTimeout(cleared)}]

\* scheduleRender on a session and the timers armed for it
ScheduleRender(entry, immediate, inputs) ==
    LET Arm(session, armed, id) ==
            [session |-> Some([session EXCEPT !.renderTimer = Some(id),
                                             !.coalesced = @ + 1]),
             armed |-> armed \cup {id}]
        Schedule(session, armed) ==
            IF immediate
            THEN [session |-> Some(Invoke(session, inputs)), armed |-> armed]
            ELSE Arm(session, armed, SetTimeout(armed))
        Clear(session) ==
            Schedule(session,
                     IF session.renderTimer # None
                     THEN ClearTimeout(entry.armed, session.renderTimer[1])
                     ELSE entry.armed)
    IN  Clear(entry.session[1])

\* scheduleRender on every live session among the targets
ScheduleAll(entries, targets, immediate, bufs) ==
    [t \in Templates |->
        IF t \in targets /\ entries[t].session # None
        THEN ScheduleRender(entries[t], immediate, RenderInputs(t, bufs))
        ELSE entries[t]]

\* the scheduleRender calls of one event handler, the debounced ones first
ApplyRequests(entries, requests, bufs) ==
    ScheduleAll(
        ScheduleAll(entries, {r.session : r \in {q \in requests : ~q.immediate}},
                    FALSE, bufs),
        {r.session : r \in {q \in requests : q.immediate}}, TRUE, bufs)

Entries == [t \in Templates |-> [session |-> sessions[t], armed |-> timers[t]]]

WithinPending(entries) ==
    \A t \in Templates :
        entries[t].session # None =>
            /\ Len(entries[t].session[1].rendering) <= MaxPending
            /\ entries[t].session[1].coalesced <= MaxBurst

\* overrides[normalized]: the entry under exactly that key
ExactOverride(overrides, key) ==
    LET exact == {i \in 1 .. Len(overrides) : overrides[i].key = key}
    IN  IF exact # {} THEN Some(overrides[FirstIndex(exact)].text) ELSE None

\* mutant: the first candidate is selected whether or not it exists
ResolveFirstCandidate(candidates, overrides) ==
    IF candidates = <<>> THEN None
    ELSE Some([path |-> Normalize(Head(candidates)), source |-> None])

RECURSIVE ResolveCandidates(_, _)
\* resolveCompanionModule: the first candidate that is dirty or on disk
ResolveCandidates(candidates, overrides) ==
    IF candidates = <<>> THEN None
    ELSE LET Select(normalized, override) ==
                 IF override # None
                 THEN Some([path |-> normalized, source |-> override])
                 ELSE IF FileExists(normalized)
                      THEN Some([path |-> normalized, source |-> None])
                      ELSE ResolveCandidates(Tail(candidates), overrides)
             Try(normalized) ==
                 Select(normalized, ExactOverride(overrides, normalized))
         IN  Try(Normalize(Head(candidates)))

\* createDefaultRecipe
CreateDefaultRecipe ==
    [title |-> None, data |-> {}, helpers |-> {}, partials |-> <<>>,
     preprocess |-> None, postprocess |-> None, partialFiles |-> <<>>,
     watchFiles |-> <<>>, moduleDependencies |-> <<>>]

\* normalizeFsPath
NormalizeFsPath(template, activeModulePath, targetPath) ==
    IF IsAbsolute(targetPath) THEN Normalize(targetPath)
    ELSE LET baseDir == IF activeModulePath # None
                        THEN Dirname(activeModulePath[1])
                        ELSE Dirname(template)
         IN  Normalize(ResolvePath(baseDir, targetPath))

Live(ss) == {t \in Templates : ss[t] # None}

NoDisposed == [session |-> None, armed |-> {}]

\* the disposed session objects a tracked partial's bucket holds, and those
\* whose extra watchers watch the path
DisposedTracking(zombies, f) ==
    {t \in Templates :
        zombies[t].session # None /\ f \in zombies[t].session[1].trackedPartials}

DisposedWatching(zombies, f) ==
    {t \in Templates :
        zombies[t].session # None /\ f \in zombies[t].session[1].watchTargets}

\* the keys of the partial index whose bucket holds a disposed session object
HeldByDisposed(zombies) ==
    {k \in IndexKeys : DisposedTracking(zombies, k) # {}}

NoEvent ==
    [kind |-> "none", file |-> TemplateA, importers |-> {}, scheduled |-> {},
     requests |-> {}, own |-> {}, candidateOf |-> {}, trackedBy |-> {},
     watchedBy |-> {}, moduleWatchedBy |-> {}, existed |-> FALSE,
     panelsCreated |-> 0, watchersCreated |-> {}, indexed |-> {},
     coalesced |-> 0, started |-> 0, pending |-> 0, begun |-> {},
     armed |-> {}, read |-> None, disposedScheduled |-> {}]

NoRender ==
    [done |-> FALSE, template |-> TemplateA, templateContent |-> None,
     present |-> {}, onDisk |-> {}, selection |-> None, dirty |-> {},
     overrides |-> <<>>, helper |-> None, failure |-> "none",
     panelBefore |-> Placeholder, panel |-> Placeholder, data |-> {},
     watchTargets |-> {}, trackedPartials |-> {}, partialFiles |-> <<>>,
     watchFiles |-> <<>>]

\* the sessions whose active companion module requires the file
ImportingSessions(f) ==
    {t \in Templates :
        /\ sessions[t] # None
        /\ sessions[t][1].activeModulePath # None
        /\ LET imports == Imports(sessions[t][1].activeModulePath[1])
           IN  \E i \in 1 .. Len(imports) : imports[i].target = f}

\* what the event found: the live sessions whose template, candidate,
\* tracked partial, extra watcher or module watcher the file is
EventFacts(event, f) ==
    [event EXCEPT
       !.file = f,
       !.importers = ImportingSessions(f),
       !.own = {t \in Live(sessions) : t = f},
       !.candidateOf = {t \in Live(sessions) :
                           f \in Range(DeriveModuleCandidates(t))},
       !.trackedBy = {t \in Live(sessions) : f \in sessions[t][1].trackedPartials},
       !.watchedBy = {t \in Live(sessions) : f \in sessions[t][1].watchTargets},
       !.moduleWatchedBy = {t \in Live(sessions) :
                               f \in sessions[t][1].moduleWatchers}]

InitManager ==
    /\ buffers = [f \in Range(EditorFiles) |-> None]
    /\ sessions = [t \in Templates |-> None]
    /\ timers = [t \in Templates |-> {}]
    /\ panels = [t \in Templates |-> 0]
    /\ moduleSessionIndex = [k \in IndexKeys |-> None]
    /\ partialSessionIndex = [k \in IndexKeys |-> None]
    /\ lastEvent = NoEvent
    /\ lastRender = NoRender
    /\ disposed = [t \in Templates |-> NoDisposed]

\* the sessions in which the handler started a render, and those it left
\* with a pending debounce timer
Begun(entries) ==
    {t \in Live(sessions) :
        Len(entries[t].session[1].rendering) > Len(sessions[t][1].rendering)}

Armed(entries) ==
    {t \in Live(sessions) :
        /\ entries[t].session[1].renderTimer # None
        /\ entries[t].session[1].renderTimer[1] \in entries[t].armed}

\* the two ways sessions and timers change together
Commit(entries) ==
    /\ sessions' = [t \in Templates |-> entries[t].session]
    /\ timers' = [t \in Templates |-> entries[t].armed]

\* mutant: no session is ever found for the document
SessionsGetNothing(ss, key) == None

\* this.sessions.get(key)
SessionsGet(ss, key) == ss[key]

\* open(document): reveal the session of the document and render at once, or
\* create the panel and the session, track and watch its candidates, show
\* the placeholder and render at once
Open(t) ==
    /\ \E found \in {SessionsGet(sessions, t)} :
       \E created \in
            {[NewSession EXCEPT
                !.moduleWatchers = Range(DeriveModuleCandidates(t))]} :
       \E entries \in
            {ScheduleAll(
                IF found # None THEN Entries
                ELSE [Entries EXCEPT ![t].session = Some(created)],
                {t}, TRUE, buffers)} :
         /\ Commit(entries)
         /\ WithinPending(entries)
         /\ panels' = IF found # None THEN panels
                      ELSE [panels EXCEPT ![t] = @ + 1]
         /\ moduleSessionIndex' =
              IF found # None THEN moduleSessionIndex
              ELSE Track(moduleSessionIndex,
                         Range(DeriveModuleCandidates(t)), t)
         /\ lastEvent' =
              [NoEvent EXCEPT
                 !.kind = "open", !.file = t,
                 !.existed = (sessions[t] # None),
                 !.requests = {[session |-> t, immediate |-> TRUE]},
                 !.scheduled = {t},
                 !.panelsCreated = panels'[t] - panels[t],
                 !.watchersCreated =
                     IF sessions[t] # None
                     THEN entries[t].session[1].moduleWatchers
                          \ sessions[t][1].moduleWatchers
                     ELSE entries[t].session[1].moduleWatchers,
                 !.indexed = {k \in IndexKeys :
                                 moduleSessionIndex'[k] # moduleSessionIndex[k]},
                 !.started = Len(entries[t].session[1].rendering)
                             - (IF sessions[t] # None
                                THEN Len(sessions[t][1].rendering) ELSE 0)]
    /\ UNCHANGED <<loaderVars, recipeVars, frameVars, renderVars, buffers,
                   partialSessionIndex, lastRender, disposed, windowVars>>

\* refresh(targetUri) for the template of a session: render at once
Refresh(t) ==
    /\ sessions[t] # None
    /\ \E entries \in {ScheduleAll(Entries, {t}, TRUE, buffers)} :
         /\ Commit(entries)
         /\ WithinPending(entries)
         /\ lastEvent' =
              [NoEvent EXCEPT
                 !.kind = "refresh", !.file = t, !.existed = TRUE,
                 !.requests = {[session |-> t, immediate |-> TRUE]},
                 !.scheduled = {t},
                 !.coalesced = sessions[t][1].coalesced,
                 !.pending = Cardinality(entries[t].armed),
                 !.started = Len(entries[t].session[1].rendering)
                             - Len(sessions[t][1].rendering)]
    /\ UNCHANGED <<loaderVars, recipeVars, frameVars, renderVars, buffers, panels,
                   moduleSessionIndex, partialSessionIndex, lastRender,
                   disposed, windowVars>>

\* mutant: every request of the handler is debounced
DocumentChangeRequestsDebounced(ss, f) ==
    {[session |-> t, immediate |-> FALSE] :
        t \in {u \in Templates : u = f /\ ss[u] # None}
              \cup BucketOf(moduleSessionIndex, f)
              \cup BucketOf(partialSessionIndex, f)}

\* the onDidChangeTextDocument handler: the session of the document, the
\* sessions indexed under it as a module, those indexed under it as a partial
DocumentChangeRequests(ss, f) ==
    {[session |-> t, immediate |-> FALSE] :
        t \in {u \in Templates : u = f /\ ss[u] # None}}
    \cup {[session |-> t, immediate |-> FALSE] :
            t \in BucketOf(moduleSessionIndex, f)}
    \cup {[session |-> t, immediate |-> TRUE] :
            t \in BucketOf(partialSessionIndex, f)}

\* the user types in an editor: the document becomes dirty and the
\* onDidChangeTextDocument handler runs
ChangeTextDocument(f, text) ==
    /\ buffers[f] # Some(text)
    /\ buffers' = [buffers EXCEPT ![f] = Some(text)]
    /\ \E requests \in {DocumentChangeRequests(sessions, f)} :
       \E entries \in {ApplyRequests(Entries, requests, buffers')} :
       \E zombies \in {ScheduleAll(disposed, DisposedTracking(disposed, f),
                                   TRUE, buffers')} :
         /\ Commit(entries)
         /\ WithinPending(entries)
         /\ disposed' = zombies
         /\ WithinPending(zombies)
         /\ lastEvent' =
              [EventFacts(NoEvent, f) EXCEPT
                 !.kind = "change",
                 !.requests = requests,
                 !.scheduled = {r.session : r \in requests},
                 !.begun = Begun(entries),
                 !.armed = Armed(entries),
                 !.disposedScheduled = DisposedTracking(disposed, f)]
    /\ UNCHANGED <<loaderVars, recipeVars, frameVars, renderVars, panels,
                   moduleSessionIndex, partialSessionIndex, lastRender,
                   windowVars>>

\* the debounce timer of a session fires: invoke
TimerFires(t, id) ==
    /\ sessions[t] # None
    /\ id \in timers[t]
    /\ \E entries \in
            {[Entries EXCEPT
                ![t] = [session |-> Some(Invoke(sessions[t][1],
                                    [RenderInputs(t, buffers) EXCEPT
                                        !.byTimer = TRUE])),
                        armed |-> timers[t] \ {id}]]} :
         /\ Commit(entries)
         /\ WithinPending(entries)
         /\ lastEvent' =
              [NoEvent EXCEPT
                 !.kind = "timer", !.file = t,
                 !.coalesced = sessions[t][1].coalesced,
                 !.read = Some(RenderInputs(t, buffers).templateContent),
                 !.started = Len(entries[t].session[1].rendering)
                             - Len(sessions[t][1].rendering),
                 !.pending = Cardinality(entries[t].armed)]
    /\ UNCHANGED <<loaderVars, recipeVars, frameVars, renderVars, buffers, panels,
                   moduleSessionIndex, partialSessionIndex, lastRender,
                   disposed, windowVars>>

\* mutant: a watcher's request is debounced unless the path is a tracked
\* partial of the session
WatcherRequestsPartialsAtOnce(ss, f) ==
    {[session |-> t, immediate |-> f \in ss[t][1].trackedPartials] :
        t \in {u \in Live(ss) :
                  f \in ss[u][1].moduleWatchers \cup ss[u][1].watchTargets}}

\* mutant: only the module watchers call back
WatcherRequestsModuleOnly(ss, f) ==
    {[session |-> t, immediate |-> TRUE] :
        t \in {u \in Live(ss) : f \in ss[u][1].moduleWatchers}}

\* the rerender callbacks of createModuleWatcher (at once) and of
\* createWatcherForPath (debounced) that a change of the file calls
WatcherRequests(ss, f) ==
    {[session |-> t, immediate |-> TRUE] :
        t \in {u \in Live(ss) : f \in ss[u][1].moduleWatchers}}
    \cup {[session |-> t, immediate |-> FALSE] :
            t \in {u \in Live(ss) : f \in ss[u][1].watchTargets}}

\* a file is changed, created or deleted on disk and the watchers on its
\* path report it
FileChangedOnDisk(f, content) ==
    /\ edits < MaxEdits
    /\ disk[f] # content
    /\ disk' = [disk EXCEPT ![f] = content]
    /\ edits' = edits + 1
    /\ \E requests \in {WatcherRequests(sessions, f)} :
       \E entries \in {ApplyRequests(Entries, requests, buffers)} :
       \E zombies \in {ScheduleAll(disposed, DisposedWatching(disposed, f),
                                   FALSE, buffers)} :
         /\ Commit(entries)
         /\ WithinPending(entries)
         /\ disposed' = zombies
         /\ WithinPending(zombies)
         /\ lastEvent' =
              [EventFacts(NoEvent, f) EXCEPT
                 !.kind = "fs",
                 !.requests = requests,
                 !.scheduled = {r.session : r \in requests},
                 !.begun = Begun(entries),
                 !.armed = Armed(entries),
                 !.disposedScheduled = DisposedWatching(disposed, f)]
    /\ UNCHANGED <<requireCache, moduleDependencyMap, lastLoad, recipeVars, frameVars,
                   renderVars, buffers, panels, moduleSessionIndex,
                   partialSessionIndex, lastRender, windowVars>>

\* the recipe of a render: loadTemplateRecipe on the selected module, with
\* the dirty documents as partial overrides, or the default recipe
RecipeFor(selection, dirtyOverrides) ==
    IF selection # None
    THEN LoadTemplateRecipe(selection[1].path, selection[1].source, <<>>,
                            dirtyOverrides)
    ELSE [status |-> "ok", recipe |-> CreateDefaultRecipe, reads |-> {},
          cache |-> requireCache, depMap |-> moduleDependencyMap]

\* mutant: the watchers of the previous recipe are not disposed
ExtraWatchersLeaked(old, watchTargets) == old \cup watchTargets

\* updateAdditionalWatchers: every extra watcher and fs watcher the session
\* holds is disposed, then one is created for each watch target
ExtraWatchers(old, watchTargets) == watchTargets

\* mutant: the partial files of the recipe are not tracked
NoTrackedPartials(t, activeModulePath, recipe) == {}

\* updateAdditionalWatchers: the partials tracked and the paths watched
TrackedPartialsOf(t, activeModulePath, recipe) ==
    {NormalizeFsPath(t, activeModulePath, recipe.partialFiles[i].path) :
        i \in 1 .. Len(recipe.partialFiles)}

WatchTargetsOf(t, activeModulePath, recipe) ==
    {NormalizeFsPath(t, activeModulePath, recipe.watchFiles[i]) :
        i \in 1 .. Len(recipe.watchFiles)}
    \cup TrackedPartialsOf(t, activeModulePath, recipe)

\* a sequence without its i-th element
Without(seq, i) == SubSeq(seq, 1, i - 1) \o SubSeq(seq, i + 1, Len(seq))

\* render(session) from the selection of the companion module to the write
\* into the panel, for the i-th of the renders in flight
Render(t, i) ==
    /\ sessions[t] # None
    /\ i \in 1 .. Len(sessions[t][1].rendering)
    /\ sessions[t][1].rendering[i].loaded = None
    /\ \E inputs \in {sessions[t][1].rendering[i]} :
       \E selection \in {ResolveCandidates(DeriveModuleCandidates(t),
                                           inputs.dirtyOverrides)} :
       \E loaded \in {RecipeFor(selection, inputs.dirtyOverrides)} :
       \E html \in {RenderTemplate(inputs.templateContent, loaded.recipe)} :
       LET session == sessions[t][1]
           recipe == loaded.recipe
           activeModulePath == IF selection # None THEN Some(selection[1].path)
                               ELSE None
           failure == IF loaded.status # "ok" THEN loaded.status
                      ELSE IF ~html.ok THEN "render" ELSE "none"
       IN
       \E tracked \in {TrackedPartialsOf(t, activeModulePath, recipe)} :
       \E panel \in {IF failure # "none"
                     THEN PanelAfterFailure(session.panel, failure)
                     ELSE [kind |-> "page", title |-> recipe.title,
                           body |-> html.body]} :
           /\ requireCache' = loaded.cache
           /\ moduleDependencyMap' = loaded.depMap
           /\ sessions' =
                [sessions EXCEPT ![t] = Some(
                    [session EXCEPT
                       !.rendering = Without(@, i),
                       !.activeModulePath = activeModulePath,
                       !.panel = panel,
                       !.trackedPartials =
                           IF loaded.status = "ok" THEN tracked ELSE @,
                       !.watchTargets =
                           IF loaded.status = "ok"
                           THEN ExtraWatchers(@,
                                    WatchTargetsOf(t, activeModulePath, recipe))
                           ELSE @])]
           /\ partialSessionIndex' =
                IF loaded.status # "ok" THEN partialSessionIndex
                ELSE Track(Untrack(partialSessionIndex,
                                   session.trackedPartials, t,
                                   HeldByDisposed(disposed)),
                           tracked, t)
           /\ lastRender' =
                [done |-> TRUE, template |-> t,
                 templateContent |-> Some(inputs.templateContent),
                 present |-> {c \in Range(DeriveModuleCandidates(t)) :
                                FileExists(c)
                                \/ c \in OverrideKeys(inputs.dirtyOverrides)},
                 onDisk |-> {c \in Range(DeriveModuleCandidates(t)) :
                               FileExists(c)},
                 selection |-> selection,
                 dirty |-> OverrideKeys(inputs.dirtyOverrides),
                 overrides |-> inputs.dirtyOverrides,
                 helper |-> CurrentSource(HelperTs, inputs.dirtyOverrides),
                 failure |-> failure,
                 panelBefore |-> session.panel,
                 panel |-> panel, data |-> recipe.data,
                 watchTargets |-> sessions'[t][1].watchTargets,
                 trackedPartials |-> sessions'[t][1].trackedPartials,
                 partialFiles |-> recipe.partialFiles,
                 watchFiles |-> recipe.watchFiles]
    /\ UNCHANGED <<disk, lastLoad, edits, recipeVars, frameVars, renderVars, buffers,
                   timers, panels, moduleSessionIndex, lastEvent, disposed,
                   windowVars>>

\* render(session) up to its await of renderTemplate, for the i-th render
\* in flight: the companion module is selected and loaded; when that fails
\* the error is shown and the render is over, otherwise
\* updateAdditionalWatchers replaces the watchers and the tracked partials
RenderLoads(t, i) ==
    /\ sessions[t] # None
    /\ i \in 1 .. Len(sessions[t][1].rendering)
    /\ sessions[t][1].rendering[i].loaded = None
    /\ \E inputs \in {sessions[t][1].rendering[i]} :
       \E selection \in {ResolveCandidates(DeriveModuleCandidates(t),
                                           inputs.dirtyOverrides)} :
       \E loaded \in {RecipeFor(selection, inputs.dirtyOverrides)} :
       \E session \in {sessions[t][1]} :
       \E activeModulePath \in {IF selection # None
                                 THEN Some(selection[1].path) ELSE None} :
       \E tracked \in {TrackedPartialsOf(t, activeModulePath, loaded.recipe)} :
       \E seen \in
            {[NoRender EXCEPT
                !.template = t,
                !.templateContent = Some(inputs.templateContent),
                !.present = {c \in Range(DeriveModuleCandidates(t)) :
                               FileExists(c)
                               \/ c \in OverrideKeys(inputs.dirtyOverrides)},
                !.onDisk = {c \in Range(DeriveModuleCandidates(t)) :
                              FileExists(c)},
                !.selection = selection,
                !.dirty = OverrideKeys(inputs.dirtyOverrides),
                !.overrides = inputs.dirtyOverrides,
                !.helper = CurrentSource(HelperTs, inputs.dirtyOverrides),
                !.data = loaded.recipe.data,
                !.partialFiles = loaded.recipe.partialFiles,
                !.watchFiles = loaded.recipe.watchFiles]} :
           /\ requireCache' = loaded.cache
           /\ moduleDependencyMap' = loaded.depMap
           /\ sessions' =
                [sessions EXCEPT ![t] = Some(
                    IF loaded.status = "ok"
                    THEN [session EXCEPT
                            !.rendering[i].loaded =
                                Some([recipe |-> loaded.recipe, seen |-> seen]),
                            !.activeModulePath = activeModulePath,
                            !.trackedPartials = tracked,
                            !.watchTargets =
                                ExtraWatchers(@,
                                    WatchTargetsOf(t, activeModulePath,
                                                   loaded.recipe))]
                    ELSE [session EXCEPT
                            !.rendering = Without(@, i),
                            !.activeModulePath = activeModulePath,
                            !.panel = PanelAfterFailure(@, loaded.status)])]
           /\ partialSessionIndex' =
                IF loaded.status # "ok" THEN partialSessionIndex
                ELSE Track(Untrack(partialSessionIndex,
                                   session.trackedPartials, t,
                                   HeldByDisposed(disposed)),
                           tracked, t)
           /\ lastRender' =
                IF loaded.status = "ok" THEN lastRender
                ELSE [seen EXCEPT
                        !.done = TRUE,
                        !.failure = loaded.status,
                        !.panelBefore = session.panel,
                        !.panel = PanelAfterFailure(session.panel, loaded.status),
                        !.watchTargets = session.watchTargets,
                        !.trackedPartials = session.trackedPartials]
    /\ UNCHANGED <<disk, lastLoad, edits, recipeVars, frameVars, renderVars, buffers,
                   timers, panels, moduleSessionIndex, lastEvent, disposed,
                   windowVars>>

\* render(session) from the moment renderTemplate settles, for the i-th
\* render in flight: the page, or the error page, is written into the panel
RenderCompletes(t, i) ==
    /\ sessions[t] # None
    /\ i \in 1 .. Len(sessions[t][1].rendering)
    /\ sessions[t][1].rendering[i].loaded # None
    /\ \E inputs \in {sessions[t][1].rendering[i]} :
       \E recipe \in {inputs.loaded[1].recipe} :
       \E html \in {RenderTemplate(inputs.templateContent, recipe)} :
       \E session \in {sessions[t][1]} :
       \E panel \in {IF ~html.ok
                     THEN PanelAfterFailure(session.panel, "render")
                     ELSE [kind |-> "page", title |-> recipe.title,
                           body |-> html.body]} :
           /\ sessions' =
                [sessions EXCEPT ![t] = Some(
                    [session EXCEPT !.rendering = Without(@, i),
                                    !.panel = panel])]
           /\ lastRender' =
                [inputs.loaded[1].seen EXCEPT
                   !.done = TRUE,
                   !.failure = IF html.ok THEN "none" ELSE "render",
                   !.panelBefore = session.panel,
                   !.panel = panel,
                   !.watchTargets = session.watchTargets,
                   !.trackedPartials = session.trackedPartials]
    /\ UNCHANGED <<loaderVars, recipeVars, frameVars, renderVars, buffers, timers, panels,
                   moduleSessionIndex, partialSessionIndex, lastEvent,
                   disposed, windowVars>>

\* disposeSession, which the panel's onDidDispose calls when the panel is
\* closed: the pending timer is cleared, every watcher disposed, the session
\* deleted from the map and taken out of both indices.  The object stays
\* referenced by its renders in flight; the model keeps one such object per
\* template.
Dispose(t) ==
    /\ sessions[t] # None
    /\ disposed[t].session = None
    /\ \E session \in {sessions[t][1]} :
         /\ timers' = [timers EXCEPT
                          ![t] = IF session.renderTimer # None
                                 THEN ClearTimeout(@, session.renderTimer[1])
                                 ELSE @]
         /\ sessions' = [sessions EXCEPT ![t] = None]
         /\ panels' = [panels EXCEPT ![t] = @ - 1]
         /\ moduleSessionIndex' =
              Untrack(moduleSessionIndex, Range(DeriveModuleCandidates(t)), t, {})
         /\ partialSessionIndex' =
              Untrack(partialSessionIndex, session.trackedPartials, t,
                      HeldByDisposed(disposed))
         /\ disposed' =
              [disposed EXCEPT
                 ![t] = [session |-> Some([session EXCEPT
                                             !.moduleWatchers = {},
                                             !.watchTargets = {},
                                             !.trackedPartials = {}]),
                         armed |-> {}]]
         /\ lastEvent' =
              [NoEvent EXCEPT
                 !.kind = "dispose", !.file = t, !.existed = TRUE,
                 !.pending = Cardinality(timers'[t]),
                 !.coalesced = Len(session.rendering)]
         /\ lastRender' = IF lastRender.template = t THEN NoRender
                          ELSE lastRender
    /\ UNCHANGED <<loaderVars, recipeVars, frameVars, renderVars, buffers, windowVars>>

\* a timer armed for a disposed session object fires: invoke
DisposedTimerFires(t, id) ==
    /\ disposed[t].session # None
    /\ id \in disposed[t].armed
    /\ \E zombies \in
            {[disposed EXCEPT
                ![t] = [session |-> Some(Invoke(disposed[t].session[1],
                                    [RenderInputs(t, buffers) EXCEPT
                                        !.byTimer = TRUE])),
                        armed |-> disposed[t].armed \ {id}]]} :
         /\ disposed' = zombies
         /\ WithinPending(zombies)
         /\ lastEvent' =
              [NoEvent EXCEPT
                 !.kind = "disposedTimer", !.file = t,
                 !.disposedScheduled = {t}, !.started = 1]
    /\ UNCHANGED <<loaderVars, recipeVars, frameVars, renderVars, buffers, sessions,
                   timers, panels, moduleSessionIndex, partialSessionIndex,
                   lastRender, windowVars>>

\* untrackAllPartials and trackPartialSession for a session object that is
\* not in the map: the bucket it alone was in is deleted, the bucket of a
\* key that has none is created
UntrackDisposed(index, keys, held) ==
    [k \in DOMAIN index |->
        IF k \in keys /\ index[k] = Some({}) /\ k \notin held THEN None
        ELSE index[k]]

TrackDisposed(index, keys) ==
    [k \in DOMAIN index |->
        IF k \in keys /\ index[k] = None THEN Some({}) ELSE index[k]]

\* render(session) for the i-th render in flight of a disposed session
\* object: nothing in render looks at the session map, so the companion
\* module is selected and loaded and updateAdditionalWatchers runs as for a
\* live session; the write into the disposed panel then throws
RenderDisposed(t, i) ==
    /\ disposed[t].session # None
    /\ i \in 1 .. Len(disposed[t].session[1].rendering)
    /\ \E inputs \in {disposed[t].session[1].rendering[i]} :
       \E selection \in {ResolveCandidates(DeriveModuleCandidates(t),
                                           inputs.dirtyOverrides)} :
       \E loaded \in {RecipeFor(selection, inputs.dirtyOverrides)} :
       \E session \in {disposed[t].session[1]} :
       \E activeModulePath \in {IF selection # None
                                 THEN Some(selection[1].path) ELSE None} :
       \E tracked \in {TrackedPartialsOf(t, activeModulePath, loaded.recipe)} :
           /\ requireCache' = loaded.cache
           /\ moduleDependencyMap' = loaded.depMap
           /\ disposed' =
                [disposed EXCEPT
                   ![t].session = Some(
                       [session EXCEPT
                          !.rendering = Without(@, i),
                          !.activeModulePath = activeModulePath,
                          !.trackedPartials =
                              IF loaded.status = "ok" THEN tracked ELSE @,
                          !.watchTargets =
                              IF loaded.status = "ok"
                              THEN ExtraWatchers(@,
                                       WatchTargetsOf(t, activeModulePath,
                                                      loaded.recipe))
                              ELSE @])]
           /\ partialSessionIndex' =
                IF loaded.status # "ok" THEN partialSessionIndex
                ELSE TrackDisposed(
                         UntrackDisposed(partialSessionIndex,
                             session.trackedPartials,
                             HeldByDisposed([disposed EXCEPT ![t] = NoDisposed])),
                         tracked)
    /\ UNCHANGED <<disk, lastLoad, edits, recipeVars, frameVars, renderVars, buffers,
                   sessions, timers, panels, moduleSessionIndex, lastEvent,
                   lastRender, windowVars>>

(***************************************************************************)
(* Sessions: one template with its two candidates, the helper the .ts      *)
(* candidate imports and the partial the .js candidate declares; edits in  *)
(* the editor and on disk.                                                 *)
(***************************************************************************)
BufferTemplates == {[ver |-> 0, fault |-> "needsPartial"]}

OpenPreview == Open(TemplateA)

RefreshPreview == Refresh(TemplateA)

EditTemplate == \E text \in BufferTemplates : ChangeTextDocument(TemplateA, text)

EditModule == \E f \in {TsA, HelperTs} : ChangeTextDocument(f, BufferText)

DebounceElapses == \E t \in Templates : \E id \in timers[t] : TimerFires(t, id)

RenderRuns == \E t \in Templates : \E i \in 1 .. MaxPending : Render(t, i)

DiskChanges ==
    \/ \E f \in {JsA, TsA} : FileChangedOnDisk(f, None)
    \/ FileChangedOnDisk(HelperTs, Some(Good(MaxVer)))

NextManager ==
    \/ OpenPreview
    \/ EditTemplate
    \/ EditModule
    \/ DebounceElapses
    \/ RenderRuns
    \/ DiskChanges

\* the candidates are edited, deleted and imported from; the template text
\* stays as it is on disk
NextCandidates ==
    \/ OpenPreview
    \/ EditModule
    \/ DebounceElapses
    \/ RenderRuns
    \/ DiskChanges

ModuleDeleted == \E f \in {JsA, TsA} : FileChangedOnDisk(f, None)

\* both candidates are deleted while the template is edited
NextNoModule ==
    \/ OpenPreview
    \/ EditTemplate
    \/ DebounceElapses
    \/ RenderRuns
    \/ ModuleDeleted

(***************************************************************************)
(* The two commands.  openPreview resolves and checks the document before  *)
(* it calls open; refreshPreview hands its argument to refresh, which      *)
(* opens the document of the URI, or of the active editor, as it is.  The  *)
(* documents: a template, a template whose extension is written in         *)
(* capitals, a saved Markdown file and an unsaved, untitled document.  Of  *)
(* a session for a document other than the two templates only the key in   *)
(* the session map is kept.                                                *)
(***************************************************************************)
TemplateCaps == MkPath(<<"/", "w", "c">>, <<"HBS">>)
NotesMd == MkPath(<<"/", "w", "notes">>, <<"md">>)
UntitledDocument == MkPath(<<"Untitled-1">>, <<>>)

\* the documents the user has at hand
Documents == {TemplateA, TemplateCaps, NotesMd, UntitledDocument}

\* document.isUntitled
IsUntitled(document) == document = UntitledDocument

\* String.prototype.toLowerCase on the extensions in use
ToLowerCase(ext) ==
    IF ext = "HBS" THEN "hbs"
    ELSE IF ext = "HANDLEBARS" THEN "handlebars"
    ELSE ext

\* path.extname(document.fileName): the last extension, or ""
ExtName(document) ==
    IF document.exts = <<>> THEN "" ELSE document.exts[Len(document.exts)]

\* the keys of this.sessions
SessionKeys == Live(sessions) \cup otherSessions

\* resolveHandlebarsDocument: the document of the URI, or of the active
\* editor; nothing when there is none, when it is untitled or when its
\* extension is neither .hbs nor .handlebars
ResolveHandlebarsDocument(uri) ==
    LET document == IF uri # None THEN uri ELSE activeTextEditor
    IN  IF document = None THEN None
        ELSE IF IsUntitled(document[1]) THEN None
        ELSE IF ToLowerCase(ExtName(document[1])) \notin {"hbs", "handlebars"}
        THEN None
        ELSE document

\* previewManager.open(document)
OpenDocument(document) ==
    IF document \in Templates
    THEN Open(document)
    ELSE /\ otherSessions' = otherSessions \cup {document}
         /\ UNCHANGED <<loaderVars, recipeVars, frameVars, renderVars,
                        managerVars, activeTextEditor, activePanel>>

\* the openPreview command
OpenPreviewCommand(uri) ==
    \E document \in {ResolveHandlebarsDocument(uri)} :
        /\ document # None
        /\ OpenDocument(document[1])

\* the refreshPreview command: previewManager.refresh(uri)
RefreshPreviewCommand(uri) ==
    IF uri # None
    THEN IF uri[1] \in SessionKeys
         THEN IF uri[1] \in Templates THEN Refresh(uri[1])
              ELSE UNCHANGED vars
         ELSE OpenDocument(uri[1])
    ELSE IF activePanel # None /\ activePanel[1] \in SessionKeys
         THEN IF activePanel[1] \in Templates THEN Refresh(activePanel[1])
              ELSE UNCHANGED vars
         ELSE /\ activeTextEditor # None
              /\ OpenDocument(activeTextEditor[1])

\* the user gives the focus to the editor of a document, or to none
FocusEditor(editor) ==
    /\ activeTextEditor # editor
    /\ activeTextEditor' = editor
    /\ activePanel' = None
    /\ UNCHANGED <<loaderVars, recipeVars, frameVars, renderVars, managerVars,
                   otherSessions>>

\* the user gives the focus to the preview panel of a session
FocusPanel(key) ==
    /\ key \in SessionKeys
    /\ activePanel # Some(key)
    /\ activePanel' = Some(key)
    /\ UNCHANGED <<loaderVars, recipeVars, frameVars, renderVars, managerVars,
                   activeTextEditor, otherSessions>>

OpenPreviewRuns ==
    \E uri \in {None} \cup {Some(d) : d \in Documents} : OpenPreviewCommand(uri)

RefreshPreviewRuns ==
    \E uri \in {None} \cup {Some(d) : d \in Documents} : RefreshPreviewCommand(uri)

FocusChanges ==
    \/ \E editor \in {None} \cup {Some(d) : d \in Documents} : FocusEditor(editor)
    \/ \E key \in Documents : FocusPanel(key)

NextCommands ==
    \/ OpenPreviewRuns
    \/ RefreshPreviewRuns
    \/ FocusChanges
    \/ RenderRuns

(***************************************************************************)
(* Watchers: the .js candidate is deleted, created again or saved with a   *)
(* text that throws when run, the partial it declares changes on disk, the *)
(* template is edited to use the partial, the preview is refreshed by      *)
(* hand.                                                                   *)
(***************************************************************************)
ModuleComesAndGoes ==
    \E content \in {None, Some(Good(MaxVer)), Some([ver |-> 1, fault |-> "late"])} :
        FileChangedOnDisk(JsA, content)

PartialChangesOnDisk == FileChangedOnDisk(PartialHeader, Some(Good(MaxVer)))

NextWatch ==
    \/ OpenPreview
    \/ RefreshPreview
    \/ EditTemplate
    \/ DebounceElapses
    \/ RenderRuns
    \/ ModuleComesAndGoes
    \/ PartialChangesOnDisk

(***************************************************************************)
(* Two sessions whose companion modules declare the same partial file:     *)
(* each preview is opened once, and a template, a companion module and the *)
(* partial are edited in the editor.                                       *)
(***************************************************************************)
OpenEither == \E t \in Templates : sessions[t] = None /\ Open(t)

EditShared ==
    \E f \in {TemplateA, JsB, PartialHeader} : ChangeTextDocument(f, BufferText)

NextFanout ==
    \/ OpenEither
    \/ EditShared
    \/ DebounceElapses
    \/ RenderRuns

(***************************************************************************)
(* Disposal: the panel is closed while renders may be in flight, the       *)
(* preview may be opened again, and the partial the module declares is     *)
(* edited in the editor and changed on disk.                               *)
(***************************************************************************)
ClosePanel == Dispose(TemplateA)

EditPartialDocument == ChangeTextDocument(PartialHeader, BufferText)

DisposedDebounceElapses ==
    \E t \in Templates : \E id \in disposed[t].armed : DisposedTimerFires(t, id)

DisposedRenderRuns ==
    \E t \in Templates : \E i \in 1 .. MaxPending : RenderDisposed(t, i)

\* two previews that share the partial are opened and closed, and the
\* module that declares it for the first is deleted
CloseEither == \E t \in Templates : Dispose(t)

JsModuleDeleted == FileChangedOnDisk(JsA, None)

NextIndex ==
    \/ OpenEither
    \/ CloseEither
    \/ RenderRuns
    \/ DisposedRenderRuns
    \/ JsModuleDeleted

\* the two halves of a render run apart, while the .js companion is
\* deleted and the .ts companion takes over
RenderLoadsRuns == \E t \in Templates : \E i \in 1 .. MaxPending : RenderLoads(t, i)

RenderCompletesRuns ==
    \E t \in Templates : \E i \in 1 .. MaxPending : RenderCompletes(t, i)

NextRefresh ==
    \/ OpenPreview
    \/ RefreshPreview
    \/ JsModuleDeleted
    \/ RenderLoadsRuns
    \/ RenderCompletesRuns

\* two previews are open; the .js companion of the first is deleted, saved
\* with a text that throws, or restored, and its template is edited to use
\* a partial
NextIsolation ==
    \/ OpenEither
    \/ RenderRuns
    \/ ModuleComesAndGoes
    \/ EditTemplate
    \/ DebounceElapses

NextDispose ==
    \/ OpenPreview
    \/ ClosePanel
    \/ RenderRuns
    \/ DisposedRenderRuns
    \/ EditPartialDocument
    \/ PartialChangesOnDisk
    \/ DebounceElapses
    \/ DisposedDebounceElapses

(***************************************************************************)
(* Typing: each edit of the template gives it a new text.                  *)
(***************************************************************************)
TypedVersions == 2 .. MaxVer + 1

TypeInTemplate ==
    \E v \in TypedVersions :
        /\ v = TemplateContent(TemplateA).ver + 1
        /\ ChangeTextDocument(TemplateA, [ver |-> v, fault |-> "none"])

NextDebounce ==
    \/ OpenPreview
    \/ RefreshPreview
    \/ TypeInTemplate
    \/ DebounceElapses
    \/ RenderRuns

(***************************************************************************)
(* Specifications                                                          *)
(***************************************************************************)
InitRecipe == exported = None /\ resolution = None /\ declared = None /\ assembled = None

Init == InitLoader /\ InitRecipe /\ InitRender /\ InitOverlap /\ InitManager

SpecLoader == Init /\ [][NextLoader]_vars

SpecDeps == Init /\ [][NextDeps]_vars

SpecPartials == Init /\ [][NextPartials]_vars

SpecRender == Init /\ [][NextRender]_vars

SpecOverlap == Init /\ [][NextOverlap]_vars

InitExports ==
    /\ InitLoader /\ InitRender /\ InitOverlap /\ InitManager
    /\ exported \in {Some(e) : e \in Exports}
    /\ resolution = None
    /\ declared = None
    /\ assembled = None

SpecRecipe == InitExports /\ [][NextRecipe]_vars
InitCyclicExports ==
    /\ InitLoader /\ InitRender /\ InitOverlap /\ InitManager
    /\ exported \in {Some(e) : e \in CyclicExports}
    /\ resolution = None
    /\ declared = None
    /\ assembled = None
\* resolveRecipe is awaited by loadTemplateRecipe: once called it runs
SpecCyclic == InitCyclicExports /\ [][NextRecipe]_vars /\ WF_vars(ResolveExport)

InitDeclarations ==
    /\ InitLoader /\ InitRender /\ InitOverlap /\ InitManager
    /\ exported = None
    /\ resolution = None
    /\ declared \in {Some(d) : d \in Declarations}
    /\ assembled = None

SpecAssemble == InitDeclarations /\ [][NextAssemble]_vars

SpecManager == Init /\ [][NextManager]_vars
SpecCandidates == Init /\ [][NextCandidates]_vars
SpecNoModule == Init /\ [][NextNoModule]_vars
SpecWatch == Init /\ [][NextWatch]_vars
SpecFanout == Init /\ [][NextFanout]_vars
SpecDebounce == Init /\ [][NextDebounce]_vars
SpecDispose == Init /\ [][NextDispose]_vars
SpecIndex == Init /\ [][NextIndex]_vars
SpecRefresh == Init /\ [][NextRefresh]_vars
SpecIsolation == Init /\ [][NextIsolation]_vars
SpecFrames == Init /\ [][NextFrames]_vars
SpecCompiler == Init /\ [][NextCompiler]_vars
SpecCommands == Init /\ [][NextCommands]_vars

(***************************************************************************)
(* Properties of root loads (SpecLoader)                                   *)
(***************************************************************************)
Called == lastLoad.status # "none"

\* C1: the recipe of every successful loadTemplateRecipe call is computed
\* from the source supplied to that call (the override if one is given,
\* otherwise the disk content at the time of the call) and from no artifact
\* of the module that an earlier call left in the require cache.
C1_RecipeFromSuppliedSource ==
    lastLoad.status = "ok" =>
        /\ lastLoad.supplied # None
        /\ lastLoad.recipe.title = Some(lastLoad.supplied[1].ver)
        /\ \A pair \in lastLoad.recipe.data :
              pair[1] = lastLoad.modulePath => pair[2] = lastLoad.supplied[1].ver

\* a successful load made while the cache held an artifact of the same
\* module compiled from another source
C1_Witness ==
    /\ lastLoad.status = "ok"
    /\ lastLoad.cacheBefore[lastLoad.modulePath] # None
    /\ lastLoad.cacheBefore[lastLoad.modulePath][1] # lastLoad.recipe.data

\* C6 as stated: without an override and without a file on disk the call
\* returns the empty recipe and does not fail.
C6_AbsentModuleGivesEmptyRecipe ==
    (Called /\ lastLoad.moduleSource = None /\ ~lastLoad.existed) =>
        (lastLoad.status = "ok" /\ lastLoad.recipe = NoRecipe)

\* C6 amended: without an override and without a file on disk the call fails
\* (companion module not found) and returns no recipe; in every other case
\* the call does not fail that way.
C6_AbsentModuleFails ==
    Called =>
        ((lastLoad.moduleSource = None /\ ~lastLoad.existed)
            <=> lastLoad.status = "notFound")

C6_Witness ==
    /\ lastLoad.status = "notFound"
    /\ lastLoad.moduleSource = None
    /\ ~lastLoad.existed

\* C8: with a moduleSource override and no file on disk the call does not
\* fail for the missing file, and returns the recipe the override's exports
\* define, for a .js as for a .ts module path.
C8_OverrideWithoutFile ==
    (Called /\ lastLoad.moduleSource # None /\ ~lastLoad.existed) =>
        /\ lastLoad.status # "notFound"
        /\ lastLoad.moduleSource[1].fault = "none" =>
              /\ lastLoad.status = "ok"
              /\ lastLoad.recipe.title = Some(lastLoad.moduleSource[1].ver)
              /\ <<lastLoad.modulePath, lastLoad.moduleSource[1].ver>>
                    \in lastLoad.recipe.data
        /\ lastLoad.modulePath \notin lastLoad.reads

C8_Witness ==
    /\ lastLoad.status = "ok"
    /\ lastLoad.modulePath = TsA
    /\ lastLoad.moduleSource = Some(BufferText)
    /\ ~lastLoad.existed
    /\ disk[JsA] = None

(***************************************************************************)
(* Properties of dependency tracking (SpecDeps)                            *)
(***************************************************************************)
ImportsHelper(root) ==
    \E i \in 1 .. Len(Imports(root)) : Imports(root)[i].target = HelperTs

\* C2: after any sequence of root loads (successful or failed) and helper
\* edits, a successful load of a root importing the helper computes its
\* exports from the helper's current source (its override, else the disk
\* content at the time of the call), never from an artifact compiled from
\* an earlier version of the helper.
C2_NoStaleDependency ==
    (lastLoad.status = "ok" /\ ImportsHelper(lastLoad.modulePath)) =>
        \A pair \in lastLoad.recipe.data :
            pair[1] = HelperTs => pair[2] = lastLoad.current[HelperTs][1].ver

\* C3: every successful load of a TypeScript root that imports the
\* TypeScript helper returns the helper's absolute path in
\* moduleDependencies and in watchFiles, on reloads and after loads of
\* another root importing the same helper as well.
C3_HelperInModuleDependencies ==
    (lastLoad.status = "ok" /\ Extname(lastLoad.modulePath) = "ts"
        /\ ImportsHelper(lastLoad.modulePath)) =>
        /\ HelperTs \in Range(lastLoad.recipe.moduleDependencies)
        /\ HelperTs \in Range(lastLoad.recipe.watchFiles)

(***************************************************************************)
(* Properties of partial resolution (SpecPartials)                         *)
(***************************************************************************)
FilePartials(root) ==
    {def \in Range(DeclaredPartials(root)) : def.kind = "file" /\ def.file # None}

\* the override entries whose key is the path, as given or once normalized
OverridesFor(overrides, absolutePath) ==
    {i \in 1 .. Len(overrides) :
        \/ overrides[i].key = absolutePath
        \/ Normalize(overrides[i].key) = Normalize(absolutePath)}

\* C9: for every partial declared as a file reference, if
\* partialSourceOverrides has an entry whose key is the partial's resolved
\* absolute path, exactly or after normalization, the load does not read the
\* partial from disk, the partial's content is the override text, and the
\* resolved path is in partialFiles and in watchFiles.
C9_PartialOverrideWins ==
    Called =>
        \A def \in FilePartials(lastLoad.modulePath) :
            LET absolutePath ==
                    ResolveRelativeToModule(lastLoad.modulePath, def.file[1])
                found == OverridesFor(lastLoad.partialSourceOverrides, absolutePath)
            IN  found # {} =>
                  /\ Normalize(absolutePath) \notin lastLoad.reads
                  /\ lastLoad.status = "ok"
                  /\ \E i \in found :
                        [name |-> def.name,
                         text |-> lastLoad.partialSourceOverrides[i].text]
                            \in Range(lastLoad.recipe.partials)
                  /\ [name |-> def.name, path |-> Normalize(absolutePath)]
                        \in Range(lastLoad.recipe.partialFiles)
                  /\ Normalize(absolutePath) \in Range(lastLoad.recipe.watchFiles)

\* an override keyed by a path that only matches after normalization, used
\* while the partial file is absent from disk
C9_Witness ==
    /\ lastLoad.status = "ok"
    /\ lastLoad.partialSourceOverrides =
           <<[key |-> PartialHeaderDotted, text |-> BufferText]>>
    /\ disk[PartialHeader] = None
    /\ [name |-> "header", text |-> BufferText] \in Range(lastLoad.recipe.partials)

(***************************************************************************)
(* Properties of renderTemplate (SpecRender)                               *)
(***************************************************************************)
IsPrefix(a, b) == Len(a) <= Len(b) /\ \A i \in 1 .. Len(a) : a[i] = b[i]

Registered(steps) == "registerHelpers" \in Range(steps) \/ "registerPartials" \in Range(steps)

\* C10 as stated: preprocess, when present, is called before the helpers
\* and partials are registered on the engine.
C10_PreprocessBeforeRegistration ==
    (renderCall.pc # "idle" /\ renderCall.recipe[1].preprocess # None
        /\ Registered(renderCall.steps)) =>
        "preprocess" \in Range(renderCall.steps)

\* the order of the calls of one renderTemplate call
RenderOrder(recipe) ==
    <<"create", "registerHelpers", "registerPartials">>
    \o (IF recipe.preprocess # None THEN <<"preprocess">> ELSE <<>>)
    \o <<"compile", "execute">>
    \o (IF recipe.postprocess # None THEN <<"postprocess">> ELSE <<>>)

\* C10 amended: in every renderTemplate call a fresh engine is created and
\* the recipe's helpers and partials are registered on it first; then
\* preprocess (when present) is called with the raw template text and
\* awaited; then the (possibly preprocessed) template is compiled and
\* executed against recipe.data; then postprocess (when present) is called
\* with the rendered output and its result returned.
C10_RegistrationBeforePreprocess ==
    renderCall.pc # "idle" =>
        LET recipe == renderCall.recipe[1]
        IN  /\ IsPrefix(renderCall.steps, RenderOrder(recipe))
            /\ renderCall.preprocessArg # None =>
                  /\ renderCall.preprocessArg = renderCall.templateContent
                  /\ renderCall.engine[1] =
                        [helpers |-> recipe.helpers, partials |-> recipe.partials]
            /\ renderCall.compiled # None =>
                  renderCall.compiled[1].text = renderCall.templateContent[1]
                  /\ renderCall.compiled[1].wrapped = (recipe.preprocess # None)
            /\ renderCall.executeArg # None => renderCall.executeArg[1] = recipe.data
            /\ renderCall.postprocessArg # None =>
                  renderCall.postprocessArg = renderCall.output
            /\ renderCall.pc = "return" =>
                  renderCall.result =
                      IF recipe.postprocess # None
                      THEN Some(ApplyPostprocess(recipe.postprocess[1],
                                                 renderCall.output[1]))
                      ELSE renderCall.output

\* a completed call with both hooks, helpers and partials
C10_Witness ==
    /\ renderCall.pc = "return"
    /\ renderCall.steps = <<"create", "registerHelpers", "registerPartials",
                            "preprocess", "compile", "execute", "postprocess">>
    /\ renderCall.recipe[1].helpers # {}
    /\ renderCall.recipe[1].partials # <<>>

(***************************************************************************)
(* Properties of the session manager (SpecManager)                         *)
(***************************************************************************)
\* C4: when a session renders while a file its companion module imports,
\* or the companion module itself, has a dirty editor buffer, every such
\* file enters the recipe with the buffer's text, not its disk content.
C4_DirtyBuffersWin ==
    (lastRender.done /\ lastRender.panel.kind = "page") =>
        \A pair \in lastRender.data :
            Normalize(pair[1]) \in lastRender.dirty => pair[2] = BufferText.ver

\* C5: a text-document-change event in a file that the active companion
\* module of a session imports schedules a render of that session.
C5_HelperEditSchedulesRender ==
    lastEvent.kind = "change" => lastEvent.importers \subseteq lastEvent.scheduled

\* the page of a template rendered with the default recipe
DefaultPage(templateContent) ==
    [kind |-> "page", title |-> None,
     body |-> Some([template |-> templateContent, wrapped |-> FALSE,
                    data |-> {}, helpers |-> {}, partials |-> <<>>,
                    stripped |-> FALSE])]

NoCandidateRender == lastRender.done /\ lastRender.present = {}

\* C7 as stated: a render with no candidate on disk or dirty writes the raw
\* template rendered with empty data into the panel, not an error page, and
\* leaves no extra watch targets.
C7_NoModuleNeverErrorPage ==
    NoCandidateRender =>
        /\ lastRender.panel = DefaultPage(lastRender.templateContent[1])
        /\ lastRender.watchTargets = {}

\* C7 amended: a render with no candidate on disk or dirty loads no module
\* and leaves no tracked partials and no extra watch targets; it writes the
\* raw template rendered with empty data, no helpers and no partials into
\* the panel when that rendering succeeds, and the error page when the
\* template fails to render without helpers and partials.
C7_NoModuleDefaultRecipe ==
    NoCandidateRender =>
        /\ lastRender.selection = None
        /\ lastRender.watchTargets = {}
        /\ lastRender.trackedPartials = {}
        /\ IF RenderTemplate(lastRender.templateContent[1], CreateDefaultRecipe).ok
           THEN lastRender.panel = DefaultPage(lastRender.templateContent[1])
           ELSE lastRender.panel.kind = "error"

\* a render without candidates that follows a render with the .js module,
\* whose partial had been tracked
C7_Witness ==
    /\ NoCandidateRender
    /\ lastRender.panel.kind = "page"
    /\ requireCache[JsA] # None
    /\ sessions[lastRender.template] # None
    /\ sessions[lastRender.template][1].activeModulePath = None

(***************************************************************************)
(* Properties of open (SpecDebounce)                                       *)
(***************************************************************************)
\* C13: every template has at most one panel, and has one exactly when it
\* has a session; every session is indexed under each of its module
\* candidates; open on a template that has a session creates no panel, no
\* module watcher and no index entry and starts one render at once; open
\* on a template without a session creates one panel, a watcher of each
\* candidate and an index entry under each candidate, and starts one render
\* at once.
C13_OneSessionPerTemplate ==
    /\ \A t \in Templates :
          /\ panels[t] <= 1
          /\ sessions[t] # None <=> panels[t] = 1
          /\ sessions[t] # None =>
                \A c \in {WithExt(t, "js"), WithExt(t, "ts")} :
                    t \in BucketOf(moduleSessionIndex, c)
    /\ lastEvent.kind = "open" =>
          LET candidates == {WithExt(lastEvent.file, "js"),
                             WithExt(lastEvent.file, "ts")}
          IN  /\ lastEvent.requests =
                    {[session |-> lastEvent.file, immediate |-> TRUE]}
              /\ lastEvent.started = 1
              /\ lastEvent.panelsCreated = IF lastEvent.existed THEN 0 ELSE 1
              /\ lastEvent.watchersCreated =
                    IF lastEvent.existed THEN {} ELSE candidates
              /\ lastEvent.indexed = IF lastEvent.existed THEN {} ELSE candidates

\* the preview of a template that has a session is opened again
C13_Witness ==
    /\ lastEvent.kind = "open"
    /\ lastEvent.existed
    /\ lastEvent.started = 1
    /\ panels[lastEvent.file] = 1
    /\ Len(sessions[lastEvent.file][1].rendering) = 2

(***************************************************************************)
(* Properties of the debounce timer (SpecDebounce)                         *)
(***************************************************************************)
\* C15: a session has at most one debounce timer armed, the one whose
\* handle it holds, and holds one exactly while non-immediate requests have
\* been made and no render was invoked since; when the timer fires, the one
\* or more requests it collected start exactly one render, which reads the
\* template text as it is after the last of them, and no timer is left
\* pending.
C15_OneTimerOneRender ==
    /\ \A t \in Templates :
          /\ Cardinality(timers[t]) <= 1
          /\ sessions[t] = None => timers[t] = {}
          /\ sessions[t] # None =>
                /\ sessions[t][1].renderTimer = None => timers[t] = {}
                /\ sessions[t][1].renderTimer # None =>
                      timers[t] = {sessions[t][1].renderTimer[1]}
                /\ sessions[t][1].coalesced >= 1 <=>
                      sessions[t][1].renderTimer # None
    /\ lastEvent.kind = "change" =>
          \A r \in lastEvent.requests :
              ~r.immediate => r.session \notin lastEvent.begun
    /\ lastEvent.kind = "timer" =>
          /\ lastEvent.coalesced >= 1
          /\ lastEvent.started = 1
          /\ lastEvent.pending = 0
          /\ lastEvent.read = Some(TemplateContent(lastEvent.file))

\* two edits of the template in a row, then the timer fires: one render
\* starts and reads the text of the second edit
C15_Witness ==
    /\ lastEvent.kind = "timer"
    /\ lastEvent.coalesced = 2
    /\ lastEvent.started = 1
    /\ lastEvent.read = Some([ver |-> 3, fault |-> "none"])
    /\ timers[lastEvent.file] = {}

\* a live session with no timer pending and no render in flight
Quiescent(t) ==
    /\ sessions[t] # None
    /\ sessions[t][1].renderTimer = None
    /\ timers[t] = {}
    /\ sessions[t][1].rendering = <<>>

\* C18: when no timer of a session is pending and none of its renders is in
\* flight, its panel shows the page rendered from the current text of the
\* template.
C18_QuiescentPanelShowsLatest ==
    \A t \in Templates :
        Quiescent(t) =>
            /\ sessions[t][1].panel.kind = "page"
            /\ sessions[t][1].panel.body[1].template = TemplateContent(t)

(***************************************************************************)
(* Properties of renders that fail (SpecWatch)                             *)
(***************************************************************************)
\* C12: a render attempt whose recipe load or template rendering fails
\* writes the error page of that failure into the panel; a session showing
\* the error page is still in the session map, watches each of its module
\* candidates and is indexed under each; a manual refresh starts a new
\* attempt at once and a change of a watched file schedules one.
C12_ErrorShownSessionKept ==
    /\ (lastRender.done /\ lastRender.failure # "none") =>
          /\ lastRender.panel.kind = "error"
          /\ lastRender.panel.body = Some(lastRender.failure)
          /\ sessions[lastRender.template] # None
    /\ \A t \in Templates :
          (sessions[t] # None /\ sessions[t][1].panel.kind = "error") =>
              \A c \in {WithExt(t, "js"), WithExt(t, "ts")} :
                  /\ c \in sessions[t][1].moduleWatchers
                  /\ t \in BucketOf(moduleSessionIndex, c)
    /\ lastEvent.kind = "refresh" =>
          /\ lastEvent.started = 1
          /\ sessions[lastEvent.file] # None
    /\ lastEvent.kind = "fs" =>
          lastEvent.moduleWatchedBy \cup lastEvent.watchedBy
              \subseteq lastEvent.scheduled

\* a render succeeds in a session whose panel showed the error page of a
\* companion module that threw when loaded
C12_Witness ==
    /\ lastRender.done
    /\ lastRender.panel.kind = "page"
    /\ lastRender.panelBefore.kind = "error"
    /\ lastRender.panelBefore.body # Some("render")
    /\ lastEvent.kind = "fs"
    /\ lastEvent.file = JsA

\* a render succeeds after a manual refresh of a session whose panel showed
\* the error page of a template that failed to render
RefreshAfterErrorSucceeds ==
    /\ lastRender.done
    /\ lastRender.panel.kind = "page"
    /\ lastRender.panelBefore = ErrorPage("render")
    /\ lastEvent.kind = "refresh"

(***************************************************************************)
(* Properties of the file-system watchers (SpecWatch)                      *)
(***************************************************************************)
\* the scheduleRender calls that are debounced unless the path is a tracked
\* partial of the session
DebouncedUnlessPartial(event) ==
    {[session |-> t, immediate |-> t \in event.trackedBy] :
        t \in event.moduleWatchedBy \cup event.watchedBy}

\* C16 as stated: a change, creation or deletion reported by a watcher of a
\* session schedules a debounced render of the session, and an immediate
\* one when the path is a tracked partial file of the session.
C16_DebouncedUnlessPartial ==
    lastEvent.kind = "fs" => lastEvent.requests = DebouncedUnlessPartial(lastEvent)

\* C16 amended: a change, creation or deletion of a module candidate of a
\* session starts a render of the session at once; one of a path among the
\* session's extra watch targets (watch files, partial files, module
\* dependencies), tracked partial files included, restarts the session's
\* debounce timer and starts no render.
C16_CandidatesAtOnceTargetsDebounced ==
    lastEvent.kind = "fs" =>
        /\ lastEvent.requests =
              {[session |-> t, immediate |-> TRUE] : t \in lastEvent.moduleWatchedBy}
              \cup {[session |-> t, immediate |-> FALSE] : t \in lastEvent.watchedBy}
        /\ \A t \in lastEvent.moduleWatchedBy \ lastEvent.watchedBy :
              t \in lastEvent.begun /\ t \notin lastEvent.armed
        /\ \A t \in lastEvent.watchedBy \ lastEvent.moduleWatchedBy :
              t \in lastEvent.armed /\ t \notin lastEvent.begun

\* a tracked partial file of the session changes on disk and the render is
\* debounced
C16_Witness ==
    /\ lastEvent.kind = "fs"
    /\ lastEvent.file = PartialHeader
    /\ lastEvent.trackedBy = {TemplateA}
    /\ lastEvent.watchedBy = {TemplateA}
    /\ lastEvent.armed = {TemplateA}
    /\ lastEvent.begun = {}

\* the .js candidate is created again and the render starts at once
CandidateCreatedRendersAtOnce ==
    /\ lastEvent.kind = "fs"
    /\ lastEvent.file = JsA
    /\ disk[JsA] # None
    /\ lastEvent.begun = {TemplateA}
    /\ lastEvent.armed = {}

ModuleEditDebounced ==
    /\ lastEvent.kind = "change"
    /\ lastEvent.file = JsB
    /\ Live(sessions) = Templates
    /\ lastEvent.requests = {[session |-> TemplateB, immediate |-> FALSE]}
    /\ TemplateB \in lastEvent.armed
    /\ lastEvent.begun = {}

\* a template is edited: its session alone gets a debounced request
TemplateEditDebounced ==
    /\ lastEvent.kind = "change"
    /\ lastEvent.file = TemplateA
    /\ Live(sessions) = Templates
    /\ lastEvent.requests = {[session |-> TemplateA, immediate |-> FALSE]}

(***************************************************************************)
(* Properties of companion-module selection (SpecManager)                  *)
(***************************************************************************)
\* the text a render's dirty documents hold for a path
DirtyTextOf(overrides, path) ==
    LET at == {i \in 1 .. Len(overrides) : overrides[i].key = path}
    IN  overrides[CHOOSE i \in at : TRUE].text

\* T.js if it is dirty or on disk, else T.ts if it is dirty or on disk
FirstPresentCandidate(template, dirty, onDisk) ==
    IF WithExt(template, "js") \in dirty \cup onDisk
    THEN Some(WithExt(template, "js"))
    ELSE IF WithExt(template, "ts") \in dirty \cup onDisk
         THEN Some(WithExt(template, "ts"))
         ELSE None

\* C14: a render selects as companion module of template T the first of
\* T.js, T.ts that has a dirty editor document or exists on disk, and none
\* when neither has; a selected candidate with a dirty document is loaded
\* from the document's text, whether or not the file exists on disk, and
\* one without is given to the loader with no source, to be read from disk.
C14_FirstCandidateDirtyWins ==
    lastRender.done =>
        LET expected == FirstPresentCandidate(lastRender.template,
                                              lastRender.dirty, lastRender.onDisk)
        IN  IF expected = None THEN lastRender.selection = None
            ELSE /\ lastRender.selection # None
                 /\ lastRender.selection[1].path = expected[1]
                 /\ IF expected[1] \in lastRender.dirty
                    THEN /\ lastRender.selection[1].source =
                              Some(DirtyTextOf(lastRender.overrides, expected[1]))
                         /\ lastRender.failure = "none" =>
                              <<expected[1],
                                DirtyTextOf(lastRender.overrides, expected[1]).ver>>
                                  \in lastRender.data
                    ELSE lastRender.selection[1].source = None

\* the .ts candidate is rendered from its dirty document while neither
\* candidate is on disk
C14_Witness ==
    /\ lastRender.done
    /\ lastRender.onDisk = {}
    /\ lastRender.selection # None
    /\ lastRender.selection[1].path = TsA
    /\ lastRender.selection[1].source = Some(BufferText)
    /\ lastRender.panel.kind = "page"
    /\ <<TsA, BufferText.ver>> \in lastRender.data

(***************************************************************************)
(* Properties of overlapping renderTemplate calls (SpecOverlap)            *)
(***************************************************************************)
\* C11: in any interleaving of renderTemplate calls, the helpers and
\* partials a call's template sees when it runs are exactly those of the
\* call's own recipe, and no two calls in progress hold the same engine.
C11_NoSharedEngineState ==
    /\ \A c \in CallIds :
          calls[c].visible # None =>
              /\ calls[c].visible[1].helpers = calls[c].recipe[1].helpers
              /\ calls[c].visible[1].partials = calls[c].recipe[1].partials
    /\ \A c, d \in CallIds :
          (c # d /\ calls[c].handle # None /\ calls[d].handle # None) =>
              calls[c].handle # calls[d].handle

\* a call that was suspended in its preprocess hook while another call, with
\* other helpers and partials, registered and ran, and that then completed
C11_Witness ==
    \E c, d \in CallIds :
        /\ c # d
        /\ calls[c].pc = "return" /\ calls[c].overlapped
        /\ calls[d].pc = "return"
        /\ calls[c].recipe[1].helpers = {"upper"}
        /\ calls[d].recipe[1].helpers = {"lower"}
        /\ calls[c].recipe[1].partials = <<>>
        /\ calls[d].recipe[1].partials # <<>>

(***************************************************************************)
(* Properties of resolveRecipe (SpecRecipe)                                *)
(***************************************************************************)
RecipeSources == NestedKeys \o <<"inline">>

\* what the i-th source of an exported object gives for a field
Given(record, i, key) ==
    IF i > Len(NestedKeys) THEN record.fields[key]
    ELSE IF record.nested[NestedKeys[i]] = None THEN "undefined"
         ELSE record.nested[NestedKeys[i]][1].fields[key]

\* the value of the last source that gives the field one
LastGiven(record, key) ==
    LET giving == {i \in 1 .. Len(RecipeSources) :
                      Given(record, i, key) \notin {"undefined", "null"}}
    IN  IF giving = {} THEN "undefined"
        ELSE Given(record, CHOOSE i \in giving : \A j \in giving : j <= i, key)

\* an object whose nested keys hold recipe objects or null
IsSourceExport(candidate) ==
    /\ candidate.kind = "object"
    /\ \A k \in Range(NestedKeys) :
          candidate.nested[k] # None =>
              /\ candidate.nested[k][1].kind \in {"object", "null"}
              /\ candidate.nested[k][1].nested = NoNested

\* C19: when the exported object exposes several of getPreviewRecipe,
\* getPreviewConfig, getPreviewData, default and inline fields, every field
\* of the resolved recipe is the value of the last of these sources, in
\* that order, that gives the field a value other than null or undefined,
\* and is undefined only when no source gives one.
C19_LastGivenSourceWins ==
    (resolution # None /\ IsSourceExport(exported[1])) =>
        /\ resolution[1].status = "ok"
        /\ \A key \in Range(RecipeKeys) :
              resolution[1].recipe[key] = LastGiven(exported[1], key)

\* data set by getPreviewRecipe survives a null under default and a null
\* inline, while the title comes from the inline field over default's
C19_Witness ==
    /\ resolution # None
    /\ exported[1].kind = "object"
    /\ exported[1].nested["getPreviewRecipe"] # None
    /\ exported[1].nested["default"] # None
    /\ exported[1].nested["default"][1].fields["data"] = "null"
    /\ exported[1].nested["default"][1].fields["title"] = "default"
    /\ exported[1].fields["data"] = "null"
    /\ resolution[1].recipe["data"] = "getPreviewRecipe"
    /\ resolution[1].recipe["title"] = "inline"

\* a factory function, or an object that only holds one nested key
IsWrapper(candidate) ==
    \/ candidate.kind = "function"
    \/ /\ candidate.kind = "object"
       /\ candidate.fields = NoFields
       /\ Cardinality({k \in Range(NestedKeys) : candidate.nested[k] # None}) = 1

Unwrapped(candidate) ==
    IF candidate.kind = "function" THEN candidate.returns[1]
    ELSE candidate.nested[CHOOSE k \in Range(NestedKeys) :
                             candidate.nested[k] # None][1]

RECURSIVE NestingDepth(_)
NestingDepth(candidate) ==
    IF IsWrapper(candidate) THEN 1 + NestingDepth(Unwrapped(candidate)) ELSE 0

RECURSIVE Innermost(_)
Innermost(candidate) ==
    IF IsWrapper(candidate) THEN Innermost(Unwrapped(candidate)) ELSE candidate

\* the fields a recipe object gives a value other than null or undefined
GivenFields(record) ==
    [k \in Range(RecipeKeys) |->
        IF record.fields[k] = "null" THEN "undefined" ELSE record.fields[k]]

\* C20: a recipe object wrapped in k levels of factory functions and nested
\* keys, in any mix, resolves to the fields of the innermost recipe object
\* when k is at most MAX_RESOLUTION_DEPTH (a factory returning an object
\* whose default is a function returning the recipe included), and fails
\* with the depth-exceeded error when k is above it.
C20_NestedUpToCap ==
    (resolution # None /\ Innermost(exported[1]).kind = "object"
        /\ Innermost(exported[1]).nested = NoNested) =>
        IF NestingDepth(exported[1]) <= MAX_RESOLUTION_DEPTH
        THEN /\ resolution[1].status = "ok"
             /\ resolution[1].recipe = GivenFields(Innermost(exported[1]))
        ELSE resolution[1].status = "depthExceeded"

\* a recipe under exactly MAX_RESOLUTION_DEPTH wrappers, functions and keys
\* mixed, resolved
C20_Witness ==
    /\ resolution # None
    /\ resolution[1].status = "ok"
    /\ resolution[1].recipe["title"] = "inner"
    /\ NestingDepth(exported[1]) = MAX_RESOLUTION_DEPTH
    /\ exported[1].kind = "function"
    /\ exported[1].returns[1].kind = "object"

\* the depth-exceeded error, one wrapper above the cap
DepthErrorAboveCap ==
    /\ resolution # None
    /\ resolution[1].status = "depthExceeded"
    /\ NestingDepth(exported[1]) = MAX_RESOLUTION_DEPTH + 1

\* the export of the nested-resolution example: a factory returning an
\* object whose default is a function returning the recipe
FactoryDefaultFactory ==
    /\ resolution # None
    /\ resolution[1].status = "ok"
    /\ exported[1] = Wrap(<<"function", "default", "function">>,
                          RecipeObject("inner", "value", "value"))

(***************************************************************************)
(* Properties of recipe resolution on cyclic exports (SpecCyclic)          *)
(***************************************************************************)
\* C21: the resolution of an export that contains itself (an object whose
\* nested key is the object, a factory that returns itself or an object
\* leading back to it), alone or under wrappers, comes to an end, and ends
\* with the depth-exceeded error.
C21_CyclicExportFails ==
    <>(resolution # None /\ resolution[1].status = "depthExceeded")

\* an object whose default is the object itself has been resolved
C21_Witness ==
    /\ exported = Some(Cyclic("cyclicDefault"))
    /\ resolution # None
    /\ resolution[1].status = "depthExceeded"

\* a factory that returns itself, reached through a default key, fails too
FactoryForeverFails ==
    /\ exported = Some(Wrap(<<"default">>, Cyclic("factoryOfItself")))
    /\ resolution # None
    /\ resolution[1].status = "depthExceeded"


(***************************************************************************)
(* The recipe a load returns: partial files and the watch list.            *)
(***************************************************************************)
\* the names the module declared with a definition of the given kind
DeclaredAs(kind) ==
    {declared[1].partials[i].name :
        i \in {j \in 1 .. Len(declared[1].partials) :
                  declared[1].partials[j].kind = kind}}

Returned == assembled # None /\ assembled[1].returned

\* C22: in every returned recipe the keys of partialFiles are exactly the
\* partial names declared as file references, each of them is also a key of
\* partials, and no partial given inline has a partialFiles entry.
C22_PartialFilesAreTheFileReferences ==
    Returned =>
        /\ PartialNames(assembled[1].partialFiles) = DeclaredAs("file")
        /\ DeclaredAs("file") \subseteq PartialNames(assembled[1].partials)
        /\ DeclaredAs("inline") \cap PartialNames(assembled[1].partialFiles) = {}

\* a returned recipe of a module with one file-backed and one inline partial
C22_Witness ==
    /\ Returned
    /\ DeclaredAs("file") = {"header"}
    /\ DeclaredAs("inline") = {"note"}
    /\ PartialNames(assembled[1].partialFiles) = {"header"}
    /\ PartialNames(assembled[1].partials) = {"header", "note"}

\* a file reference without a path, or to a file that cannot be read, makes
\* the load throw: no recipe is returned
BrokenReferenceReturnsNothing ==
    (assembled # None
        /\ \E i \in 1 .. Len(declared[1].partials) :
              /\ declared[1].partials[i].kind = "file"
              /\ \/ declared[1].partials[i].file = None
                 \/ /\ declared[1].partials[i].file = Some(PartialMissingRel)
                    /\ declared[1].partialSourceOverrides = <<>>)
    => ~assembled[1].returned


WatchFilesOf(recipe) == {recipe.watchFiles[i] : i \in 1 .. Len(recipe.watchFiles)}

\* C23: every path in the watchFiles of a returned recipe is absolute and
\* normalized, whatever mix of relative, absolute and non-normalized entries
\* the module's watchFiles, partial references and dependencies supplied.
C23_WatchFilesAbsoluteNormalized ==
    Returned =>
        \A entry \in WatchFilesOf(assembled[1]) :
            IsAbsolute(entry) /\ Normalize(entry) = entry

\* what the code does guarantee: every path is absolute, and only an entry
\* the module's own watchFiles wrote absolute can be left unnormalized
WatchFilesAbsolute ==
    Returned =>
        \A entry \in WatchFilesOf(assembled[1]) :
            /\ IsAbsolute(entry)
            /\ Normalize(entry) # entry => entry \in Range(declared[1].watchFiles)

\* the module wrote /w/./data.json and the recipe watches that very string
UnnormalizedEntryKept ==
    /\ Returned
    /\ declared[1].watchFiles = <<DataJsonDotted>>
    /\ assembled[1].watchFiles = <<DataJsonDotted>>


\* what the module supplied to the watch list, blank entries aside, each
\* relative entry resolved against the directory of the companion module
SuppliedWatchSet ==
    {IF IsAbsolute(entry) THEN entry ELSE ResolvePath(Dirname(JsA), entry) :
        entry \in (Range(declared[1].watchFiles) \ {BlankPath})
                  \cup {assembled[1].partialFiles[i].path :
                           i \in 1 .. Len(assembled[1].partialFiles)}
                  \cup Range(declared[1].moduleDependencies)}

NoPathTwice(paths) ==
    \A i, j \in 1 .. Len(paths) : paths[i] = paths[j] => i = j

\* C24: the watchFiles of a returned recipe contains no path twice and, as a
\* set, is the union of the module's watchFiles, the partial file paths and
\* the recorded dependencies, each resolved against the module's directory -
\* also when one file is named once relatively and once absolutely.
C24_WatchFilesDeduplicatedUnion ==
    Returned =>
        /\ NoPathTwice(assembled[1].watchFiles)
        /\ WatchFilesOf(assembled[1]) = SuppliedWatchSet

\* the part the code does guarantee: as a set the list is that union
WatchFilesAreTheUnion ==
    Returned => WatchFilesOf(assembled[1]) = SuppliedWatchSet

\* data.json named relatively and absolutely is listed twice
SameFileListedTwice ==
    /\ Returned
    /\ declared[1].watchFiles = <<DataJsonRel, DataJson>>
    /\ assembled[1].watchFiles = <<DataJson, DataJson>>

\* a partial file the module also lists in watchFiles is listed twice
PartialFileListedTwice ==
    /\ Returned
    /\ declared[1].watchFiles = <<PartialHeaderRel>>
    /\ declared[1].moduleDependencies = <<>>
    /\ assembled[1].watchFiles = <<PartialHeader, PartialHeader>>


\* C30: an immediate render request cancels the pending debounce timer of
\* the session: right after it no timer is pending, its render has started,
\* and the non-immediate requests it absorbed leave nothing behind that
\* could start another render.
C30_ImmediateCancelsTimer ==
    lastEvent.kind \in {"open", "refresh"} =>
        /\ lastEvent.started = 1
        /\ timers[lastEvent.file] = {}
        /\ sessions[lastEvent.file][1].renderTimer = None
        /\ sessions[lastEvent.file][1].coalesced = 0
        /\ lastEvent.kind = "refresh" => lastEvent.pending = 0

\* a refresh that found the timer of two typed edits pending: its render is
\* in flight with the text of the second edit and no timer is armed
C30_Witness ==
    /\ lastEvent.kind = "refresh"
    /\ lastEvent.coalesced = 2
    /\ lastEvent.started = 1
    /\ timers[TemplateA] = {}
    /\ \E i \in 1 .. Len(sessions[TemplateA][1].rendering) :
          sessions[TemplateA][1].rendering[i].templateContent
              = [ver |-> 3, fault |-> "none"]


\* the renders in flight that the debounce timer started, in start order
TimerRenders(t) ==
    IF sessions[t] = None THEN <<>>
    ELSE SelectSeq(sessions[t][1].rendering, LAMBDA r : r.byTimer)

DisposedTemplates == {t \in Templates : disposed[t].session # None}

\* C25: once a session has been disposed it is absent from the session map
\* and from every bucket of the module index and of the partial index, in
\* every later state, also when a render of it was in flight at disposal and
\* completes afterwards.
C25_DisposedSessionGone ==
    /\ \A t \in DisposedTemplates :
          \A k \in IndexKeys : t \notin DisposedTracking(disposed, k)
    /\ lastEvent.kind = "dispose" =>
          /\ sessions[lastEvent.file] = None
          /\ \A k \in IndexKeys :
                /\ lastEvent.file \notin BucketOf(moduleSessionIndex, k)
                /\ lastEvent.file \notin BucketOf(partialSessionIndex, k)

\* what disposeSession itself does: when it returns the session is in no
\* map, index or bucket and holds no timer and no watcher
DisposeRemovesSession ==
    [][\A t \in Templates :
          Dispose(t) =>
              /\ sessions'[t] = None
              /\ timers'[t] = {}
              /\ \A k \in IndexKeys :
                    /\ t \notin BucketOf(moduleSessionIndex', k)
                    /\ t \notin BucketOf(partialSessionIndex', k)
                    /\ t \notin DisposedTracking(disposed', k)
                    /\ t \notin DisposedWatching(disposed', k)
              /\ disposed'[t].armed = {}]_vars

\* the render in flight at disposal completed: the disposed session object
\* is in the bucket of the partial again, while no session is in the map
DisposedSessionTrackedAgain ==
    /\ sessions[TemplateA] = None
    /\ disposed[TemplateA].session # None
    /\ disposed[TemplateA].session[1].rendering = <<>>
    /\ DisposedTracking(disposed, PartialHeader) = {TemplateA}
    /\ partialSessionIndex[PartialHeader] = Some({})

\* C26: disposed is terminal: in every state after its disposal the session
\* holds no live watcher and no pending debounce timer, and no new render
\* is started for it, also when a render in flight at disposal completes
\* afterwards.
C26_DisposedIsTerminal ==
    /\ \A t \in DisposedTemplates :
          /\ disposed[t].session[1].moduleWatchers = {}
          /\ disposed[t].session[1].watchTargets = {}
          /\ disposed[t].armed = {}
    /\ lastEvent.disposedScheduled = {}
    /\ lastEvent.kind # "disposedTimer"

\* an edit of the partial starts a render of the disposed session object
DisposedSessionRendersAgain ==
    /\ sessions[TemplateA] = None
    /\ lastEvent.kind = "change"
    /\ lastEvent.file = PartialHeader
    /\ lastEvent.disposedScheduled = {TemplateA}
    /\ Len(disposed[TemplateA].session[1].rendering) = 1

\* a change of the partial on disk arms a debounce timer for it
DisposedSessionTimerArmed ==
    /\ sessions[TemplateA] = None
    /\ lastEvent.kind = "fs"
    /\ lastEvent.disposedScheduled = {TemplateA}
    /\ disposed[TemplateA].armed # {}


\* C27: for every live session s, s is in the module-index bucket of p
\* exactly if p is one of its module candidates, and in the partial-index
\* bucket of p exactly if p is in its tracked partial set, which is the
\* partial file set of the recipe most recently loaded for it; and neither
\* index holds an empty bucket.
C27_IndicesMirrorSessions ==
    /\ \A t \in Live(sessions) :
          \A k \in IndexKeys :
              /\ t \in BucketOf(moduleSessionIndex, k)
                    <=> k \in Range(DeriveModuleCandidates(t))
              /\ t \in BucketOf(partialSessionIndex, k)
                    <=> k \in sessions[t][1].trackedPartials
    /\ (lastRender.done /\ lastRender.failure \in {"none", "render"}
           /\ sessions[lastRender.template] # None) =>
          sessions[lastRender.template][1].trackedPartials
              = {Normalize(lastRender.partialFiles[i].path) :
                    i \in 1 .. Len(lastRender.partialFiles)}
    /\ \A k \in IndexKeys :
          /\ moduleSessionIndex[k] # Some({})
          /\ partialSessionIndex[k] = Some({}) => k \in HeldByDisposed(disposed)

\* both previews share the bucket of the partial, then the first is closed:
\* the bucket stays, with the second session alone in it
C27_Witness ==
    /\ sessions[TemplateA] = None
    /\ sessions[TemplateB] # None
    /\ lastEvent.kind = "dispose"
    /\ lastEvent.file = TemplateA
    /\ disposed[TemplateA].session[1].rendering = <<>>
    /\ partialSessionIndex[PartialHeader] = Some({TemplateB})
    /\ moduleSessionIndex[JsA] = None
    /\ moduleSessionIndex[JsB] = Some({TemplateB})

\* the module that declared the partial is gone and the session rendered
\* again: it left the bucket, which was deleted
BucketPrunedOnRefresh ==
    /\ sessions[TemplateA] # None
    /\ sessions[TemplateB] = None
    /\ disposed[TemplateB].session = None
    /\ lastRender.done
    /\ lastRender.template = TemplateA
    /\ lastRender.panelBefore.kind = "page"
    /\ sessions[TemplateA][1].trackedPartials = {}
    /\ partialSessionIndex[PartialHeader] = None

\* the paths a render's recipe asks to have watched: its watch files and the
\* files of its partials, as recorded of the render
RecipePaths(seen) ==
    LET activeModulePath ==
            IF seen.selection # None THEN Some(seen.selection[1].path) ELSE None
    IN  {NormalizeFsPath(seen.template, activeModulePath, seen.watchFiles[i]) :
            i \in 1 .. Len(seen.watchFiles)}
        \cup {NormalizeFsPath(seen.template, activeModulePath,
                              seen.partialFiles[i].path) :
                 i \in 1 .. Len(seen.partialFiles)}

BucketsHolding(index, t) == {k \in IndexKeys : t \in BucketOf(index, k)}

\* C31: a render of one session that fails, while the recipe is loaded or
\* while the template is rendered, leaves every other session as it was:
\* its panel, watchers, tracked partials, timer and renders in flight, and
\* the buckets of both indices that hold it
C31_FailedRenderLeavesOthers ==
    [][\A t \in Templates : \A i \in 1 .. MaxPending :
          (Render(t, i) /\ lastRender'.failure # "none")
              => \A u \in Templates \ {t} :
                    /\ sessions'[u] = sessions[u]
                    /\ timers'[u] = timers[u]
                    /\ panels'[u] = panels[u]
                    /\ BucketsHolding(moduleSessionIndex', u)
                           = BucketsHolding(moduleSessionIndex, u)
                    /\ BucketsHolding(partialSessionIndex', u)
                           = BucketsHolding(partialSessionIndex, u)
      ]_vars

\* the first session showed a page and tracked the shared partial; its
\* render with the .ts companion failed on the template and it left the
\* bucket, where the second session, showing its page, stays
C31_Witness ==
    /\ lastRender.done
    /\ lastRender.template = TemplateA
    /\ lastRender.failure = "render"
    /\ lastRender.panelBefore.kind = "page"
    /\ sessions[TemplateA] # None
    /\ sessions[TemplateA][1].panel.kind = "error"
    /\ sessions[TemplateA][1].trackedPartials = {}
    /\ sessions[TemplateB] # None
    /\ sessions[TemplateB][1].panel.kind = "page"
    /\ PartialHeader \in sessions[TemplateB][1].trackedPartials
    /\ partialSessionIndex[PartialHeader] = Some({TemplateB})

\* the load of the first session's companion failed while the second
\* session shows its page
LoadFailedBesideOtherSession ==
    /\ lastRender.done
    /\ lastRender.template = TemplateA
    /\ lastRender.failure \notin {"none", "render"}
    /\ sessions[TemplateB] # None
    /\ sessions[TemplateB][1].panel.kind = "page"
    /\ partialSessionIndex[PartialHeader] = Some({TemplateA, TemplateB})

(***************************************************************************)
(* Properties of the load-frame stack (SpecFrames)                         *)
(***************************************************************************)
LoadSucceeded == rootLoad.pc = "done" /\ rootLoad.status = "ok"

\* C32: after a successful load every file transpiled, or resolved through
\* the fallback, while the module was loaded, at top level at any depth or
\* from the exported factory, is in the dependency set of the root, which
\* is the root's map entry, and no other file of the chain has an entry
C32_EveryFileInRootSet ==
    LoadSucceeded =>
        /\ rootLoad.depMap[ChainRoot] # None
        /\ Range(rootLoad.depMap[ChainRoot][1]) = rootLoad.touched
        /\ \A f \in ChainFiles \ {ChainRoot} : rootLoad.depMap[f] = None

\* the part of it that holds: when the root frame is closed, before the
\* factory is invoked, the root's entry is what the top-level code, at any
\* depth, transpiled or resolved through the fallback
TopLevelFilesInRootSet ==
    (/\ rootLoad.pc = "running"
     /\ Len(rootLoad.activations) = 1
     /\ rootLoad.activations[1].kind = "factory"
     /\ rootLoad.activations[1].next = 1)
        => /\ rootLoad.depMap[ChainRoot] # None
           /\ Range(rootLoad.depMap[ChainRoot][1]) = rootLoad.touched

\* the file the factory required has a map entry of its own, and the
\* root's entry, two levels deep, does not hold it
FactoryRequireGetsOwnEntry ==
    /\ LoadSucceeded
    /\ rootLoad.depMap[ChainRoot] # None
    /\ Range(rootLoad.depMap[ChainRoot][1]) = {HelperTs, DeepTs}
    /\ rootLoad.touched = {HelperTs, DeepTs, LazyTs}
    /\ rootLoad.depMap[LazyTs] = Some(<<LazyTs>>)

RootLoadFailed ==
    /\ rootLoad.pc = "done"
    /\ rootLoad.status = "failed"
    /\ rootLoad.failedIn = "root"

RootLoadReturned == rootLoad.pc = "done" /\ rootLoad.failedIn # "root"

\* C33: after a root load that failed, because the root did not transpile
\* or because it or a module it requires threw, the dependency map has no
\* entry for the root; after a root load that returned, the root's entry
\* is the set the load accumulated in the root's context
C33_FailedRootLoadLeavesNoEntry ==
    /\ RootLoadFailed => rootLoad.depMap[ChainRoot] = None
    /\ RootLoadReturned =>
          /\ rootLoad.contexts # <<>>
          /\ rootLoad.contexts[1].root = ChainRoot
          /\ rootLoad.depMap[ChainRoot] = Some(rootLoad.contexts[1].dependencies)

\* an earlier load had left an entry, and the failed load had accumulated
\* the helper and the file behind the alias when the root threw
C33_Witness ==
    /\ RootLoadFailed
    /\ rootLoad.before # None
    /\ rootLoad.contexts # <<>>
    /\ rootLoad.contexts[1].dependencies = <<DeepTs, HelperTs>>
    /\ rootLoad.depMap[ChainRoot] = None

\* the root did not transpile: no frame was pushed, and the entry of the
\* earlier load is gone
EarlierEntryGoneWhenNotTranspiled ==
    /\ RootLoadFailed
    /\ rootLoad.before # None
    /\ rootLoad.contexts = <<>>
    /\ rootLoad.depMap[ChainRoot] = None

\* a load replaced the entry of an earlier load by a different set
EntryReplacedOnSuccess ==
    /\ LoadSucceeded
    /\ rootLoad.before = Some(<<DeepTs, HelperTs>>)
    /\ rootLoad.depMap[ChainRoot] = Some(<<HelperTs>>)

\* the module bodies on the call stack, innermost last: each runs inside
\* the loader of a withModuleLoadFrame call
LoadersRunning ==
    SelectSeq(rootLoad.activations, LAMBDA a : a.kind \in {"root", "ts"})

\* C40: the frame stack holds exactly one frame for each loader that is
\* running, in call order, so it is empty whenever none is running:
\* between loads, after a load that failed, and while the factory runs
\* code of its own
C40_StackEmptyOutsideLoads ==
    /\ Len(moduleLoadStack) = Len(LoadersRunning)
    /\ \A i \in 1 .. Len(LoadersRunning) :
          moduleLoadStack[i].modulePath = LoadersRunning[i].file
    /\ rootLoad.pc \in {"idle", "done"} => moduleLoadStack = <<>>

\* the factory's require pushed a root frame on the empty stack, the file
\* did not transpile, and the load failed: the stack is empty again
C40_Witness ==
    /\ rootLoad.pc = "done"
    /\ rootLoad.status = "failed"
    /\ rootLoad.failedIn = "factory"
    /\ Len(rootLoad.contexts) = 2
    /\ rootLoad.contexts[2].root = LazyTs
    /\ moduleLoadStack = <<>>

\* three frames deep: the root, the helper and the file behind the alias
ThreeFramesDeep ==
    /\ rootLoad.pc = "running"
    /\ Len(moduleLoadStack) = 3
    /\ moduleLoadStack[3].modulePath = DeepTs
    /\ ~moduleLoadStack[3].isRoot
    /\ moduleLoadStack[3].context = 1

(***************************************************************************)
(* Properties of the compiler contexts (SpecCompiler)                      *)
(***************************************************************************)
\* the directory the configuration used by the latest call restricts the
\* compilation to, if it declares one
RestrictedTo(call) ==
    IF call.configPath = None \/ DeclaredRootDir(call.configPath[1]) = None
    THEN None
    ELSE Some(NormalizeSegs(call.configPath[1]
                                \o DeclaredRootDir(call.configPath[1])[1], <<>>))

\* C34: a file inside the rootDir of the configuration found for it is
\* compiled with the rootDir option in force, whatever was compiled under
\* that configuration before
C34_RootDirInForceInside ==
    (/\ tsCompiler.last.called
     /\ RestrictedTo(tsCompiler.last) # None
     /\ IsWithinDirectory(tsCompiler.last.filePath,
                          RestrictedTo(tsCompiler.last)[1]))
        => tsCompiler.last.context.options.rootDir
               = DeclaredRootDir(tsCompiler.last.configPath[1])

\* what holds: a file outside the rootDir is compiled without the option
OutsideCompiledWithoutRootDir ==
    (/\ tsCompiler.last.called
     /\ RestrictedTo(tsCompiler.last) # None
     /\ ~IsWithinDirectory(tsCompiler.last.filePath,
                           RestrictedTo(tsCompiler.last)[1]))
        => tsCompiler.last.context.options.rootDir = None

\* a file outside the rootDir was compiled first: the file inside it gets
\* the context made for the outside file, and no context with the option
\* is ever made
InsideGetsRootlessContext ==
    /\ tsCompiler.last.called
    /\ tsCompiler.last.filePath = DeepTs
    /\ tsCompiler.last.configPath = Some(WorkspaceDir)
    /\ tsCompiler.last.context.originalRootDir = Some(LibDir)
    /\ tsCompiler.last.context.options.rootDir = None
    /\ tsCompiler.compilerContextCache[[kind |-> "config", dir |-> WorkspaceDir]]
           = None
    /\ tsCompiler.compilerContextCache[[kind |-> "noRootDir", dir |-> WorkspaceDir]]
           # None

\* the file inside was compiled first: both contexts are cached and the
\* file inside gets the one with the option
InsideFirstKeepsRootDir ==
    /\ tsCompiler.last.called
    /\ tsCompiler.last.filePath = DeepTs
    /\ tsCompiler.last.context.options.rootDir = Some(<<"lib">>)
    /\ tsCompiler.compilerContextCache[[kind |-> "noRootDir", dir |-> WorkspaceDir]]
           # None

\* what a search root answers to a call: the outcome cached for it before
\* the call, else what the search from it finds on disk
AnswerOf(call, root) ==
    IF call.lookupBefore[root] # None THEN call.lookupBefore[root][1]
    ELSE FindConfigFile(root, call.exists)

\* C35: the configuration found for a file is the answer of the file's
\* directory or, when that is "not found" and a workspace root is given,
\* the answer of the workspace root; an outcome cached before the call is
\* still cached after it, and the roots the call searched now have their
\* answers cached, and no other root
C35_ConfigLookupOrderAndCache ==
    LET call == tsCompiler.last
        cache == tsCompiler.configLookupCache
        dir == Dirname(call.filePath)
        fromDir == AnswerOf(call, dir)
        second == fromDir = None /\ call.workspaceFolder # None
    IN  call.called =>
          /\ call.configPath =
                IF fromDir # None THEN fromDir
                ELSE IF second THEN AnswerOf(call, call.workspaceFolder[1])
                ELSE None
          /\ \A r \in SearchRoots :
                call.lookupBefore[r] # None => cache[r] = call.lookupBefore[r]
          /\ cache[dir] = Some(fromDir)
          /\ second => cache[call.workspaceFolder[1]]
                          = Some(AnswerOf(call, call.workspaceFolder[1]))
          /\ \A r \in SearchRoots :
                (cache[r] # None /\ call.lookupBefore[r] = None)
                    => r = dir \/ (second /\ r = call.workspaceFolder[1])

\* the directory of the external file was searched when it had no
\* configuration; one was created since, and the lookup still answers
\* "not found" for that root and takes the configuration of the workspace
C35_Witness ==
    /\ tsCompiler.last.called
    /\ tsCompiler.last.filePath = ExtTs
    /\ tsCompiler.last.workspaceFolder = Some(WorkspaceDir)
    /\ tsCompiler.last.lookupBefore[ExternalDir] = Some(None)
    /\ tsCompiler.last.exists[ExternalDir]
    /\ tsCompiler.last.configPath = Some(WorkspaceDir)
    /\ tsCompiler.configLookupCache[ExternalDir] = Some(None)

\* both search roots have a configuration and nothing is cached: the one
\* of the file's directory wins and the workspace root is not searched
FileDirectoryWins ==
    /\ tsCompiler.last.called
    /\ tsCompiler.last.filePath = ExtTs
    /\ tsCompiler.last.workspaceFolder = Some(WorkspaceDir)
    /\ tsCompiler.last.lookupBefore = [r \in SearchRoots |-> None]
    /\ tsCompiler.last.exists = [d \in ConfigDirs |-> TRUE]
    /\ tsCompiler.last.configPath = Some(ExternalDir)
    /\ tsCompiler.configLookupCache[WorkspaceDir] = None

(***************************************************************************)
(* Partials that cannot be resolved.                                       *)
(***************************************************************************)
\* the path a file reference resolves to
ResolvedPartialPath(definition) ==
    Normalize(ResolveRelativeToModule(JsA, definition.file[1]))

\* an object partial whose `file` key is there but names no path
HasEmptyFile(definition) == definition.kind = "file" /\ definition.file = None

\* an object partial that has no `file` key at all
HasNoFileKey(definition) == definition.kind = "object"

\* a file reference to a file that is not on disk and has no override
IsUnreadable(definition) ==
    /\ definition.kind = "file"
    /\ definition.file # None
    /\ \/ ResolvedPartialPath(definition) \notin DOMAIN disk
       \/ disk[ResolvedPartialPath(definition)] = None
    /\ FindOverride(declared[1].partialSourceOverrides,
                    ResolvedPartialPath(definition)) = None

\* the load threw an error that names this partial the way its defect
\* requires: the name alone, or the name, the resolved path and the cause
ErrorNames(definition) ==
    /\ assembled[1].error # None
    /\ assembled[1].error[1].partial = definition.name
    /\ IF IsUnreadable(definition)
       THEN /\ assembled[1].error[1].path = Some(ResolvedPartialPath(definition))
            /\ assembled[1].error[1].cause # None
       ELSE assembled[1].error[1].kind = "missingFilePath"

DeclaredPartialsWhere(Defect(_)) ==
    {declared[1].partials[i] :
        i \in {j \in 1 .. Len(declared[1].partials) :
                  Defect(declared[1].partials[j])}}

\* C36: a partial given as an object whose file field is absent or empty
\* makes the load fail with an error naming the partial, and a file reference
\* that cannot be read and has no override makes it fail with an error naming
\* the partial, the resolved path and the cause; no recipe is returned.
C36_UnresolvablePartialFailsTheLoad ==
    LET broken == DeclaredPartialsWhere(HasEmptyFile)
                      \cup DeclaredPartialsWhere(HasNoFileKey)
                      \cup DeclaredPartialsWhere(IsUnreadable)
    IN  (assembled # None /\ broken # {}) =>
            /\ ~assembled[1].returned
            /\ \E definition \in broken : ErrorNames(definition)

\* the same for objects that do have a `file` key: this much the code does
FileKeyedReferenceFailsTheLoad ==
    LET broken == DeclaredPartialsWhere(HasEmptyFile)
                      \cup DeclaredPartialsWhere(IsUnreadable)
    IN  (assembled # None /\ broken # {}) =>
            /\ ~assembled[1].returned
            /\ \E definition \in broken : ErrorNames(definition)

\* an object without a `file` key is registered as the inline text
\* "[object Object]", with no partialFiles entry, and the recipe is returned
ObjectWithoutFileKeyIsInlineText ==
    (Returned /\ DeclaredPartialsWhere(HasNoFileKey) # {}) =>
        \A definition \in DeclaredPartialsWhere(HasNoFileKey) :
            /\ \E i \in 1 .. Len(assembled[1].partials) :
                  assembled[1].partials[i] =
                      [name |-> definition.name, text |-> ObjectText]
            /\ definition.name \notin PartialNames(assembled[1].partialFiles)

\* a recipe returned for a module whose only partial is { encoding: "utf8" }
ObjectWithoutFileKeyReturned ==
    /\ Returned
    /\ Len(declared[1].partials) = 1
    /\ HasNoFileKey(declared[1].partials[1])
    /\ assembled[1].partials = <<[name |-> "header", text |-> ObjectText]>>
    /\ assembled[1].partialFiles = <<>>

\* a failed read reported with the partial, its resolved path and the cause
UnreadablePartialReported ==
    /\ assembled # None
    /\ ~assembled[1].returned
    /\ assembled[1].error =
          Some(ReadFailure("note",
                   MkPath(<<"/", "w", "partials", "missing">>, <<"hbs">>)))

\* the override of a partial that is not on disk is used and the load returns
OverrideStandsInForMissingFile ==
    /\ Returned
    /\ declared[1].partialSourceOverrides # <<>>
    /\ \E i \in 1 .. Len(assembled[1].partials) :
          assembled[1].partials[i].text = BufferText

(***************************************************************************)
(* A render whose recipe load fails (SpecWatch)                            *)
(***************************************************************************)
\* the last render of the session ended because its recipe could not be
\* loaded, and the session is still open
LoadFailedLast(t) ==
    /\ lastRender.done
    /\ lastRender.template = t
    /\ lastRender.failure \notin {"none", "render"}
    /\ sessions[t] # None

\* C37: a render whose recipe load fails leaves the session's extra and
\* fallback watchers, its tracked partials and the partial index as they
\* were, and a later change on disk of a file the session still watches
\* schedules a render of the session.
C37_FailedLoadKeepsWatchState ==
    [][/\ \A t \in Templates : \A i \in 1 .. MaxPending :
            (Render(t, i) /\ lastRender'.failure \notin {"none", "render"})
                => /\ sessions'[t][1].watchTargets = sessions[t][1].watchTargets
                   /\ sessions'[t][1].trackedPartials
                          = sessions[t][1].trackedPartials
                   /\ sessions'[t][1].moduleWatchers
                          = sessions[t][1].moduleWatchers
                   /\ partialSessionIndex' = partialSessionIndex
       /\ \A t \in Templates :
            \A f \in IF LoadFailedLast(t)
                      THEN sessions[t][1].watchTargets
                               \cup sessions[t][1].trackedPartials
                      ELSE {} :
                (f \in DOMAIN disk /\ disk'[f] # disk[f])
                    => /\ lastEvent'.kind = "fs"
                       /\ t \in lastEvent'.scheduled
                       /\ t \in lastEvent'.armed \cup lastEvent'.begun
      ]_vars

\* the session showed a page with the partial of its .js companion; the
\* companion was saved with a text that throws and the load failed; the
\* partial, still watched and indexed, then changed on disk and a render of
\* the session is pending
C37_Witness ==
    /\ LoadFailedLast(TemplateA)
    /\ lastRender.failure = "loadError"
    /\ lastRender.panelBefore.kind = "page"
    /\ sessions[TemplateA][1].panel.kind = "error"
    /\ sessions[TemplateA][1].rendering = <<>>
    /\ PartialHeader \in sessions[TemplateA][1].trackedPartials
    /\ PartialHeader \in sessions[TemplateA][1].watchTargets
    /\ partialSessionIndex[PartialHeader] = Some({TemplateA})
    /\ lastEvent.kind = "fs"
    /\ lastEvent.file = PartialHeader
    /\ TemplateA \in lastEvent.armed
    /\ timers[TemplateA] # {}

(***************************************************************************)
(* Overlapping renders of one session: whose watch state, whose page       *)
(* (SpecRefresh)                                                           *)
(***************************************************************************)
\* the module a render selected
SelectedPath(seen) ==
    IF seen.selection # None THEN Some(seen.selection[1].path) ELSE None

\* the partial files of a render's recipe, as the session tracks them
RecipePartialPaths(seen) ==
    {NormalizeFsPath(seen.template, SelectedPath(seen), seen.partialFiles[i].path) :
        i \in 1 .. Len(seen.partialFiles)}

\* the watch state of the session is the one this render asked for
WatchStateOf(session, seen) ==
    /\ session.activeModulePath = SelectedPath(seen)
    /\ session.trackedPartials = RecipePartialPaths(seen)
    /\ session.watchTargets = RecipePaths(seen)

IsSavedTemplate(document) ==
    /\ ~IsUntitled(document)
    /\ ToLowerCase(ExtName(document)) \in {"hbs", "handlebars"}

\* C39: every session in the session map has a saved (not untitled)
\* template document with an .hbs or .handlebars extension, whichever
\* command created it: openPreview, or refreshPreview with or without a URI
C39_EverySessionHasSavedTemplate ==
    \A key \in SessionKeys : IsSavedTemplate(key)

\* openPreview never creates a session for anything but a saved template
OpenPreviewChecksTheDocument ==
    [][\A uri \in {None} \cup {Some(d) : d \in Documents} :
          OpenPreviewCommand(uri)
              => \A key \in (Live(sessions') \cup otherSessions') \ SessionKeys :
                    IsSavedTemplate(key)
      ]_vars

\* refreshPreview with the URI of a Markdown file that has no session
\* created a session for it
RefreshOpenedMarkdown == NotesMd \in otherSessions

\* refreshPreview without a URI, while no preview panel was active and the
\* untitled document had the focus, created a session for it
RefreshOpenedUntitled ==
    /\ UntitledDocument \in otherSessions
    /\ activeTextEditor = Some(UntitledDocument)

\* openPreview on the template whose extension is in capitals created a
\* session, next to the session of the first template
OpenPreviewOpenedTemplates ==
    /\ TemplateCaps \in otherSessions
    /\ sessions[TemplateA] # None

====
